---- MODULE Spec2Model ----
(***************************************************************************)
(* Model of the scraper core: identity / fingerprint engine                *)
(* (deduplicator.py), change detector and snapshot store (changes.py),     *)
(* field normalizer (normalizer.py), record validator (validator.py,       *)
(* schemas.py) and the extraction loop of the two job drivers (cli.py      *)
(* execute_job, scraper_api/main.py scrape); the page fetcher               *)
(* (fetcher.py), the robots.txt check (compliance.py), the scroll pass of   *)
(* the image strategy and the page the strategies share (extractor.py),     *)
(* and the rate limiter (rate_limiter.py).                                  *)
(*                                                                         *)
(* Each part has its own specification over the shared variables:          *)
(* SpecIdentity, SpecDedup, SpecValidator, SpecDiff, SpecStore, SpecJob,   *)
(* SpecFetch, SpecCompliance, SpecScroll, SpecRate, SpecPage, and one for   *)
(* each function applied on its own.                                        *)
(* The variables of the parts a specification does not use keep their      *)
(* idle values.                                                            *)
(*                                                                         *)
(* A record (a Python dict) is a sequence of <<key, value>> pairs with     *)
(* distinct keys, in insertion order.  A string is a sequence of           *)
(* one-character strings; the Python value None is the token None.         *)
(***************************************************************************)
EXTENDS Integers, Sequences, FiniteSets, TLC

VARIABLES
    \* identity engine under test: inputs, outputs, function applied
    records, key_fields, record_id, unique_records, fn,
    \* Validator: self.errors, and the number of validate_result calls on it
    errors, runs,
    \* validate_result: its argument, its locals at the threshold check, what
    \* it returned, whether it raised ValueError
    result, total_records, invalid_records, validated, raised,
    \* the dict the driver goes on with after its try/except around validate_result
    handed,
    \* detect_changes: its arguments current, previous and key_fields, and what it returned
    current, previous, key_map, changes,
    \* snapshot store: the files of snapshot_dir, the clock, each writer's
    \* save_snapshot call in progress, the save_snapshot calls that returned,
    \* and the outcome of the latest load_latest_snapshot call
    files, clock, writing, save_log, loaded,
    \* a job of the drivers: the requested modules, where the driver is, the
    \* index of the module the loop is at, and the extract calls made so far
    modules, pc, next_module, calls,
    \* which driver runs the job (cli.py or the service) and what it gave its caller
    driver, output,
    \* Fetcher.fetch: config.wait_until and max_retries, where the call is, its loop
    \* indices, the page.goto calls made, whether the page is open, last_error,
    \* and what the call gave its caller
    wait_until, max_retries, fpc, attempt, position, navigations, page_open, last_error, fetched,
    \* ImageExtractor._scroll_page: the document's scroll height, how much lazy
    \* content it can still load, the window's scroll offset; the locals of the
    \* pass and where it is
    page_height, grow_left, scroll_y, viewport_height, total_height, current_position, spc,
    \* rate_limiter.py: whether the acquire calls go to one RateLimiter or each to
    \* a limiter of its own, time(), and per request its domain, where it is
    \* in acquire, when its sleep ends and when it was granted; per limiter
    \* the last_request dict and the holder of the lock
    shared, time_now, request_domain, rpc, wake_at, granted_at, last_request, lock,
    \* the page the strategies of a job share: the elements in its document, the
    \* lazy ones a scroll brings in, the page as it was fetched; the modules
    \* of the job, the next one to run and what each strategy extracted
    dom, pending, page_at_fetch, run_order, cursor, found,
    \* a function applied on its own: its argument, what it returned, its name
    arg, ret, applied

varsId == <<records, key_fields, record_id, unique_records, fn>>

varsVal == <<errors, runs, result, total_records, invalid_records, validated, raised, handed>>

varsDiff == <<current, previous, key_map, changes>>

varsStore == <<files, clock, writing, save_log, loaded>>

varsJob == <<modules, pc, next_module, calls, driver, output>>

varsFn == <<arg, ret, applied>>

varsPage == <<dom, pending, page_at_fetch, run_order, cursor, found>>

varsRate == <<shared, time_now, request_domain, rpc, wake_at, granted_at, last_request, lock>>

varsScroll == <<page_height, grow_left, scroll_y, viewport_height, total_height, current_position, spc>>

varsFetch == <<wait_until, max_retries, fpc, attempt, position, navigations, page_open, last_error, fetched>>

vars == <<records, key_fields, record_id, unique_records, fn,
          errors, runs, result, total_records, invalid_records, validated, raised, handed,
          current, previous, key_map, changes,
          files, clock, writing, save_log, loaded,
          modules, pc, next_module, calls, driver, output,
          arg, ret, applied,
          wait_until, max_retries, fpc, attempt, position, navigations, page_open, last_error, fetched,
          page_height, grow_left, scroll_y, viewport_height, total_height, current_position, spc,
          shared, time_now, request_domain, rpc, wake_at, granted_at, last_request, lock,
          dom, pending, page_at_fetch, run_order, cursor, found>>

----------------------------------------------------------------------------
(* Python dicts *)

None == <<"None">>

\* field names in the order Python's sorted() gives them (code point order)
FieldOrder ==
    <<"alt", "description", "filename", "height", "image", "link", "price", "price_currency",
      "price_value", "size", "sku",
      "title", "type", "url", "width">>

Rank(k) == CHOOSE i \in DOMAIN FieldOrder : FieldOrder[i] = k

Keys(d) == {d[i][1] : i \in DOMAIN d}

HasKey(d, k) == k \in Keys(d)

IsDict(d) == \A i, j \in DOMAIN d : d[i][1] = d[j][1] => i = j

\* dict.get(k): the value, or None when the key is absent
Get(d, k) ==
    IF HasKey(d, k) THEN d[CHOOSE i \in DOMAIN d : d[i][1] = k][2] ELSE None

\* d[k] = v: an existing key keeps its position, a new key goes last
DictSet(d, k, v) ==
    IF HasKey(d, k)
    THEN [i \in DOMAIN d |-> IF d[i][1] = k THEN <<k, v>> ELSE d[i]]
    ELSE Append(d, <<k, v>>)

\* Python's dict equality: same keys with the same values, order ignored
DictEq(a, b) == Keys(a) = Keys(b) /\ \A k \in Keys(a) : Get(a, k) = Get(b, k)

----------------------------------------------------------------------------
(* deduplicator.py *)

\* json.dumps(d, sort_keys=True): the pairs of d listed by ascending key
JsonDumpsSorted(d) ==
    LET ks == Keys(d)
        pos(k) == 1 + Cardinality({x \in ks : Rank(x) < Rank(k)})
    IN  [i \in 1..Cardinality(ks) |->
            LET k == CHOOSE x \in ks : pos(x) = i IN <<k, Get(d, k)>>]

\* hashlib.md5(text).hexdigest(): a digest that stands for its text
\* (equal texts give equal digests, and no two texts modelled here collide)
Md5(text) == [md5 |-> text]

\* {k: record.get(k) for k in key_fields if k in record}
RECURSIVE KeyData(_, _)
KeyData(record, fields) ==
    IF fields = <<>> THEN <<>>
    ELSE LET k == fields[Len(fields)]
             init == KeyData(record, SubSeq(fields, 1, Len(fields) - 1))
         IN  IF HasKey(record, k) THEN DictSet(init, k, Get(record, k)) ELSE init

\* a slip that null-fills absent key fields: {k: record.get(k) for k in key_fields}
RECURSIVE KeyDataNullFill(_, _)
KeyDataNullFill(record, fields) ==
    IF fields = <<>> THEN <<>>
    ELSE LET k == fields[Len(fields)]
             init == KeyDataNullFill(record, SubSeq(fields, 1, Len(fields) - 1))
         IN  DictSet(init, k, Get(record, k))

GenerateIdNullFill(record, fields) == Md5(JsonDumpsSorted(KeyDataNullFill(record, fields)))

generate_id(record, fields) == Md5(JsonDumpsSorted(KeyData(record, fields)))

\* a slip that leaves sort_keys out: json.dumps(record) lists the pairs in dict order
FingerprintUnsorted(record) == Md5(record)

generate_fingerprint(record) == Md5(JsonDumpsSorted(record))

\* the loop of deduplicate from record i on
RECURSIVE DedupLoop(_, _, _, _, _)
DedupLoop(recs, fields, i, seen_ids, unique) ==
    IF i > Len(recs) THEN unique
    ELSE LET rid == generate_id(recs[i], fields)
         IN  IF rid \notin seen_ids
             THEN DedupLoop(recs, fields, i + 1, seen_ids \cup {rid}, Append(unique, recs[i]))
             ELSE DedupLoop(recs, fields, i + 1, seen_ids, unique)

\* a slip that forgets seen_ids.add(record_id)
DeduplicateNoSeen(recs, fields) == recs

deduplicate(recs, fields) == DedupLoop(recs, fields, 1, {}, <<>>)

----------------------------------------------------------------------------
(* Python strings *)

Digits == {"0", "1", "2", "3", "4", "5", "6", "7", "8", "9"}

Whitespace == {" ", "\t", "\n"}

RECURSIVE LStrip(_)
LStrip(v) == IF v # <<>> /\ Head(v) \in Whitespace THEN LStrip(Tail(v)) ELSE v

RECURSIVE RStrip(_)
RStrip(v) ==
    IF v # <<>> /\ v[Len(v)] \in Whitespace THEN RStrip(SubSeq(v, 1, Len(v) - 1)) ELSE v

\* v.strip()
Strip(v) == RStrip(LStrip(v))

\* re.search(r'\d', v)
HasDigit(v) == \E i \in DOMAIN v : v[i] \in Digits

\* v.startswith(prefix)
StartsWith(v, prefix) == Len(v) >= Len(prefix) /\ SubSeq(v, 1, Len(prefix)) = prefix

\* the whole of t is [^\s@]+ @ [^\s@]+ \. [^\s@]+
EmailShape(t) ==
    \E i, j \in DOMAIN t :
        /\ 1 < i /\ i + 1 < j /\ j < Len(t)
        /\ t[i] = "@" /\ t[j] = "."
        /\ \A k \in DOMAIN t : k # i => t[k] \notin Whitespace \cup {"@"}

\* re.match(r'^[^\s@]+@[^\s@]+\.[^\s@]+$', v): $ also matches before a final newline
EmailMatch(v) ==
    \/ EmailShape(v)
    \/ v # <<>> /\ v[Len(v)] = "\n" /\ EmailShape(SubSeq(v, 1, Len(v) - 1))

----------------------------------------------------------------------------
(* schemas.py: for each schema, the errors of a record and, when there are *)
(* none, the dict that Schema(record fields).dict() gives                       *)

TitleMax == 500

ItemCap == 100

\* the declared fields of a schema, in declaration order
SchemaFields(kind) ==
    CASE kind = "product" -> <<"title", "price", "image", "link", "description">>
      [] kind = "image"   -> <<"url", "alt", "width", "height">>
      [] kind = "asset"   -> <<"filename", "url", "type", "size">>

\* the fields declared without a default
RequiredFields(kind) ==
    CASE kind = "product" -> {"title"}
      [] kind = "image"   -> {"url"}
      [] kind = "asset"   -> {"filename", "url", "type"}

\* class Config: extra = 'allow' (ProductSchema only; the others ignore extras)
ExtraAllowed(kind) == kind = "product"

\* the @validator of a field, run on a value that passed the type check:
\* <<error or "", value to keep>>
FieldValidator(kind, k, v) ==
    CASE kind = "product" /\ k = "title" ->
            IF v = <<>> \/ Len(Strip(v)) = 0 THEN <<"Title is required", v>>
            ELSE IF Len(v) > TitleMax THEN <<"Title too long (max 500 characters)", v>>
            ELSE <<"", Strip(v)>>
      [] kind = "product" /\ k = "price" ->
            IF v # <<>> /\ ~HasDigit(v) THEN <<"Price must contain numbers", v>>
            ELSE <<"", v>>
      [] kind \in {"image", "asset"} /\ k = "url" ->
            IF v = <<>> \/ ~StartsWith(v, <<"h", "t", "t", "p">>)
            THEN <<"URL must be a valid HTTP/HTTPS URL", v>>
            ELSE <<"", v>>
      [] OTHER -> <<"", v>>

\* the error of one declared field of the record, "" when it has none
FieldError(kind, rec, k) ==
    IF ~HasKey(rec, k)
    THEN IF k \in RequiredFields(kind) THEN "field required" ELSE ""
    ELSE IF Get(rec, k) = None
         THEN IF k \in RequiredFields(kind) THEN "none is not an allowed value" ELSE ""
         ELSE FieldValidator(kind, k, Get(rec, k))[1]

\* str(e) of the ValidationError: the failing fields with their messages
SchemaErrors(kind, rec) ==
    LET fs == SchemaFields(kind)
        bad == {i \in DOMAIN fs : FieldError(kind, rec, fs[i]) # ""}
    IN  [n \in 1..Cardinality(bad) |->
            LET i == CHOOSE x \in bad : Cardinality({y \in bad : y < x}) = n - 1
            IN  <<fs[i], FieldError(kind, rec, fs[i])>>]

\* the declared fields of the dict, defaults filled in, validators applied
RECURSIVE DeclaredDict(_, _, _)
DeclaredDict(kind, rec, fs) ==
    IF fs = <<>> THEN <<>>
    ELSE LET k == fs[Len(fs)]
             v == IF HasKey(rec, k) /\ Get(rec, k) # None
                  THEN FieldValidator(kind, k, Get(rec, k))[2]
                  ELSE None
         IN  Append(DeclaredDict(kind, rec, SubSeq(fs, 1, Len(fs) - 1)), <<k, v>>)

\* the fields of the record that the schema does not declare, in input order
ExtraFields(kind, rec) ==
    LET declared == {SchemaFields(kind)[i] : i \in DOMAIN SchemaFields(kind)}
    IN  SelectSeq(rec, LAMBDA pair : pair[1] \notin declared)

\* Schema(record fields).dict() of a record without errors
SchemaDict(kind, rec) ==
    DeclaredDict(kind, rec, SchemaFields(kind))
        \o (IF ExtraAllowed(kind) THEN ExtraFields(kind, rec) ELSE <<>>)

\* ContactSchema: every email must match; phones and socials are any strings
ContactErrors(contacts) ==
    LET emails == Get(contacts, "emails")
    IN  IF HasKey(contacts, "emails")
           /\ \E i \in DOMAIN emails : ~EmailMatch(emails[i])
        THEN << <<"emails", "Invalid email format">> >>
        ELSE <<>>

ContactDict(contacts) ==
    [i \in 1..3 |->
        LET k == <<"emails", "phones", "socials">>[i]
        IN  <<k, IF HasKey(contacts, k) THEN Get(contacts, k) ELSE <<>> >>]

\* v[:100]
FirstItems(v) == SubSeq(v, 1, IF Len(v) < ItemCap THEN Len(v) ELSE ItemCap)

\* TextSchema: title and meta default to "", the lists are cut to 100 items
TextDict(text) ==
    << <<"title", IF HasKey(text, "title") THEN Get(text, "title") ELSE <<>> >>,
       <<"meta", IF HasKey(text, "meta") THEN Get(text, "meta") ELSE <<>> >>,
       <<"headings", IF HasKey(text, "headings") THEN FirstItems(Get(text, "headings")) ELSE <<>> >>,
       <<"paragraphs", IF HasKey(text, "paragraphs") THEN FirstItems(Get(text, "paragraphs")) ELSE <<>> >> >>

----------------------------------------------------------------------------
(* validator.py *)

\* error_threshold = 0.5, as the fraction ErrorThresholdNum / ErrorThresholdDen
ErrorThresholdNum == 1

ErrorThresholdDen == 2

\* the 'type' of the Error Log entries of a list category
TypeOf(kind) == kind

\* a slip that logs the 1-based position in place of enumerate()'s index
RECURSIVE ValidateListOneBased(_, _, _, _, _)
ValidateListOneBased(kind, items, idx, out, errs) ==
    IF idx > Len(items) THEN [validated |-> out, errors |-> errs]
    ELSE IF SchemaErrors(kind, items[idx]) = <<>>
         THEN ValidateListOneBased(kind, items, idx + 1,
                                   Append(out, SchemaDict(kind, items[idx])), errs)
         ELSE ValidateListOneBased(kind, items, idx + 1, out,
                                   Append(errs, [type |-> TypeOf(kind), index |-> idx,
                                                 error |-> SchemaErrors(kind, items[idx]),
                                                 data |-> items[idx]]))

\* validate_products / validate_images / validate_assets from item idx on:
\* idx counts from 1 here, the entry's 'index' from 0 as enumerate() does
RECURSIVE ValidateList(_, _, _, _, _)
ValidateList(kind, items, idx, out, errs) ==
    IF idx > Len(items) THEN [validated |-> out, errors |-> errs]
    ELSE IF SchemaErrors(kind, items[idx]) = <<>>
         THEN ValidateList(kind, items, idx + 1,
                           Append(out, SchemaDict(kind, items[idx])), errs)
         ELSE ValidateList(kind, items, idx + 1, out,
                           Append(errs, [type |-> TypeOf(kind), index |-> idx - 1,
                                         error |-> SchemaErrors(kind, items[idx]),
                                         data |-> items[idx]]))

\* validate_contacts: None stands for the returned None
ValidateContacts(contacts, errs) ==
    IF ContactErrors(contacts) = <<>>
    THEN [validated |-> ContactDict(contacts), errors |-> errs]
    ELSE [validated |-> None,
          errors |-> Append(errs, [type |-> "contact", error |-> ContactErrors(contacts),
                                   data |-> contacts])]

\* validate_text: the text dicts modelled hold strings and lists, which TextSchema accepts
ValidateText(text, errs) == [validated |-> TextDict(text), errors |-> errs]

\* 'k' in result and result['k']
Filled(res, k) == k \in DOMAIN res /\ res[k] # <<>>

\* a dict with one more key
With(d, k, v) == [x \in DOMAIN d \cup {k} |-> IF x = k THEN v ELSE d[x]]

EmptyDict == [x \in {} |-> <<>>]

\* one list category of validate_result: st is [validated, total, errors]
ListStep(st, res, cat, kind) ==
    IF Filled(res, cat)
    THEN LET r == ValidateList(kind, res[cat], 1, <<>>, st.errors)
         IN  [validated |-> With(st.validated, cat, r.validated),
              total |-> st.total + Len(res[cat]),
              errors |-> r.errors]
    ELSE st

ContactsStep(st, res) ==
    IF Filled(res, "contacts")
    THEN LET r == ValidateContacts(res["contacts"], st.errors)
         IN  IF r.validated # None /\ r.validated # <<>>
             THEN [validated |-> With(st.validated, "contacts", r.validated),
                   total |-> st.total + 1, errors |-> r.errors]
             ELSE [st EXCEPT !.errors = r.errors]
    ELSE st

TextStep(st, res) ==
    IF Filled(res, "text")
    THEN LET r == ValidateText(res["text"], st.errors)
         IN  [validated |-> With(st.validated, "text", r.validated),
              total |-> st.total + 1, errors |-> r.errors]
    ELSE st

CrawlStep(st, res) ==
    IF "crawl" \in DOMAIN res
    THEN [st EXCEPT !.validated = With(st.validated, "crawl", res["crawl"])]
    ELSE st

\* invalid_records as line 122 reads it: the log's length before this run validates
InvalidRecords(errs_before, errs_after) == Len(errs_before)

\* total_records > 0 and invalid_records / total_records > self.error_threshold
ThresholdExceeded(invalid, total) ==
    total > 0 /\ invalid * ErrorThresholdDen > total * ErrorThresholdNum

\* the threshold check and the outcome, from the state after the last category
Outcome(errs, st) ==
    [errors |-> st.errors,
     total_records |-> st.total,
     invalid_records |-> InvalidRecords(errs, st.errors),
     raised |-> ThresholdExceeded(InvalidRecords(errs, st.errors), st.total),
     validated |-> st.validated]

\* validate_result(self, result) on a Validator whose log is errs: the
\* categories in the order of lines 124-149, each working on the state the
\* one before left; then the locals at the threshold check, the log
\* afterwards, and whether ValueError was raised
validate_result(errs, res) ==
    CHOOSE r \in
        {Outcome(errs, s6) : s6 \in
          {CrawlStep(s5, res) : s5 \in
            {ListStep(s4, res, "assets", "asset") : s4 \in
              {TextStep(s3, res) : s3 \in
                {ContactsStep(s2, res) : s2 \in
                  {ListStep(s1, res, "images", "image") : s1 \in
                    {ListStep([validated |-> EmptyDict, total |-> 0, errors |-> errs],
                              res, "products", "product")}}}}}}} : TRUE

----------------------------------------------------------------------------
(* changes.py *)

\* the value of a variable nothing has been stored in yet
Unset == [unset |-> TRUE]

\* the None that stands for "no previous snapshot"
NoSnapshot == [none |-> TRUE]

\* the key_fields argument left out (None); an empty map is falsy in the same way
NoKeyMap == EmptyDict

\* the map detect_changes falls back to
DefaultKeyMap ==
    "products" :> <<"title", "url">> @@ "images" :> <<"url">> @@ "assets" :> <<"url">>

DiffedTypes == <<"products", "images", "assets">>

\* isinstance(data[data_type], list): the categories a result holds as lists
IsListType(data_type) == data_type \in {"products", "images", "assets", "crawl"}

Range(s) == {s[i] : i \in DOMAIN s}

\* record_ids of save_snapshot: filled only under "if key_fields"
RecordIds(data, keys) ==
    IF DOMAIN keys = {} THEN EmptyDict
    ELSE [t \in {x \in DOMAIN keys : x \in DOMAIN data /\ IsListType(x)} |->
            [i \in DOMAIN data[t] |-> generate_id(data[t][i], keys[t])]]

\* snapshot_data of save_snapshot
MakeSnapshot(job_id, timestamp, data, keys) ==
    [timestamp |-> timestamp, job_id |-> job_id, data |-> data,
     record_ids |-> RecordIds(data, keys)]

\* dict.get(k, []) on a dict of lists
GetList(d, k) == IF k \in DOMAIN d THEN d[k] ELSE <<>>

\* keys of current_ids = {generate_id(r, fields): r for r in current_records}
CurrentIdsSet(recs, fields) == {generate_id(recs[i], fields) : i \in DOMAIN recs}

\* current_ids[id]: a later record of an identity replaces an earlier one
CurrentRecord(recs, fields, id) ==
    recs[CHOOSE i \in DOMAIN recs :
            /\ generate_id(recs[i], fields) = id
            /\ \A j \in DOMAIN recs : generate_id(recs[j], fields) = id => j <= i]

\* a slip that never reads the persisted list
PrevIdsRecomputed(prev, data_type, fields) ==
    {generate_id(r, fields) : r \in Range(GetList(prev.data, data_type))}

\* prev_ids_set: the persisted list, or when that is empty the identities of
\* the previous records under the fields in use now
PrevIdsSet(prev, data_type, fields) ==
    IF Range(GetList(prev.record_ids, data_type)) # {}
    THEN Range(GetList(prev.record_ids, data_type))
    ELSE {generate_id(r, fields) : r \in Range(GetList(prev.data, data_type))}

\* whether next((r for r in previous_records if generate_id(r, fields) == record_id), None)
\* finds a record
HasPrevRecord(prev_records, fields, id) ==
    \E i \in DOMAIN prev_records : generate_id(prev_records[i], fields) = id

\* the record it finds: the first previous record of that identity
PrevRecord(prev_records, fields, id) ==
    prev_records[CHOOSE i \in DOMAIN prev_records :
            /\ generate_id(prev_records[i], fields) = id
            /\ \A j \in DOMAIN prev_records :
                   generate_id(prev_records[j], fields) = id => i <= j]

\* the entries appended to updated; "if prev_record:" is false for None and for {}
UpdatedEntries(cur_records, prev_records, fields, common_ids) ==
    {[id |-> id,
      previous |-> PrevRecord(prev_records, fields, id),
      current |-> CurrentRecord(cur_records, fields, id)] :
        id \in {x \in common_ids :
                  /\ HasPrevRecord(prev_records, fields, x)
                  /\ PrevRecord(prev_records, fields, x) # <<>>
                  /\ generate_fingerprint(CurrentRecord(cur_records, fields, x))
                       # generate_fingerprint(PrevRecord(prev_records, fields, x))}}

\* the data types the loop of detect_changes does not skip
DiffedIn(cur, keys) ==
    {t \in Range(DiffedTypes) : t \in DOMAIN cur /\ t \in DOMAIN keys}

KeyMapInUse(kf) == IF DOMAIN kf = {} THEN DefaultKeyMap ELSE kf

\* detect_changes.  The lists under 'new', 'removed' and 'updated' are built by
\* iterating Python sets of digests, whose order is not fixed: each is the
\* set of its elements here.
detect_changes(cur, prev, kf) ==
    IF prev = NoSnapshot
    THEN [new |-> cur, updated |-> EmptyDict, removed |-> EmptyDict]
    ELSE [new |->
            [t \in DiffedIn(cur, KeyMapInUse(kf)) |->
                {CurrentRecord(cur[t], KeyMapInUse(kf)[t], id) :
                    id \in CurrentIdsSet(cur[t], KeyMapInUse(kf)[t])
                           \ PrevIdsSet(prev, t, KeyMapInUse(kf)[t])}],
          removed |->
            [t \in DiffedIn(cur, KeyMapInUse(kf)) |->
                PrevIdsSet(prev, t, KeyMapInUse(kf)[t])
                \ CurrentIdsSet(cur[t], KeyMapInUse(kf)[t])],
          updated |->
            [t \in DiffedIn(cur, KeyMapInUse(kf)) |->
                UpdatedEntries(cur[t], GetList(prev.data, t),
                               KeyMapInUse(kf)[t],
                               CurrentIdsSet(cur[t], KeyMapInUse(kf)[t])
                               \cap PrevIdsSet(prev, t, KeyMapInUse(kf)[t]))]]

----------------------------------------------------------------------------
(* changes.py: the snapshot files *)

Writers == {"w1", "w2"}

\* a writer with no save_snapshot call in progress
Idle == [idle |-> TRUE]

\* clock ticks per second; the filesystem stamps mtime to the tick
TicksPerSecond == 2

\* int(time.time())
Timestamp(t) == t \div TicksPerSecond

Digit(n) == <<"0", "1", "2", "3", "4", "5", "6", "7", "8", "9">>[n + 1]

\* str() of a natural number
RECURSIVE Str(_)
Str(n) == IF n < 10 THEN <<Digit(n)>> ELSE Str(n \div 10) \o <<Digit(n % 10)>>

JsonSuffix == <<".", "j", "s", "o", "n">>

\* snapshot_dir / f"{job_id}_{timestamp}.json"
SnapshotPath(job_id, timestamp) == job_id \o <<"_">> \o Str(timestamp) \o JsonSuffix

EndsWith(s, suffix) ==
    /\ Len(s) >= Len(suffix)
    /\ SubSeq(s, Len(s) - Len(suffix) + 1, Len(s)) = suffix

\* whether glob(f"{job_id}_*.json") yields the file called name
GlobMatches(job_id, name) ==
    /\ Len(name) >= Len(job_id) + 1 + Len(JsonSuffix)
    /\ StartsWith(name, job_id \o <<"_">>)
    /\ EndsWith(name, JsonSuffix)

\* json.dump(snapshot_data, f, indent=2): the text that encodes the snapshot
JsonDump(snapshot) == [json |-> snapshot]

\* the text of a file opened with 'w' and not yet written in full, or written
\* over by two writers at once: json.load raises JSONDecodeError on it
BrokenText == [broken |-> TRUE]

\* the file area after a file is created or replaced
WriteFile(fs, name, text, mtime) ==
    [n \in DOMAIN fs \cup {name} |->
        IF n = name THEN [text |-> text, mtime |-> mtime] ELSE fs[n]]

\* the files max(snapshots, key=lambda p: p.stat().st_mtime) can return: glob
\* lists the directory in no fixed order, so any file of greatest mtime
LatestFiles(fs, job_id) ==
    {n \in DOMAIN fs :
        /\ GlobMatches(job_id, n)
        /\ \A x \in DOMAIN fs : GlobMatches(job_id, x) => fs[x].mtime <= fs[n].mtime}

\* json.load(f)
JsonLoad(text) ==
    IF text = BrokenText THEN [raised |-> TRUE, value |-> NoSnapshot]
    ELSE [raised |-> FALSE, value |-> text.json]

\* the outcomes of load_latest_snapshot(job_id)
load_latest_snapshot(fs, job_id) ==
    IF \A n \in DOMAIN fs : ~GlobMatches(job_id, n)
    THEN {[raised |-> FALSE, value |-> NoSnapshot]}
    ELSE {JsonLoad(fs[n].text) : n \in LatestFiles(fs, job_id)}

----------------------------------------------------------------------------
(* normalizer.py *)

Letters ==
    {"a", "b", "c", "d", "e", "f", "g", "h", "i", "j", "k", "l", "m",
     "n", "o", "p", "q", "r", "s", "t", "u", "v", "w", "x", "y", "z",
     "A", "B", "C", "D", "E", "F", "G", "H", "I", "J", "K", "L", "M",
     "N", "O", "P", "Q", "R", "S", "T", "U", "V", "W", "X", "Y", "Z"}

\* the characters \w matches
WordChars == Letters \cup Digits \cup {"_"}

\* str(v) of a string or None
PyStr(v) == IF v = None THEN <<"N", "o", "n", "e">> ELSE v

\* whether pat occurs in s at position i
MatchesAt(s, pat, i) == i + Len(pat) - 1 <= Len(s) /\ SubSeq(s, i, i + Len(pat) - 1) = pat

RECURSIVE ReplaceFrom(_, _, _, _)
ReplaceFrom(s, pat, rep, i) ==
    IF i > Len(s) THEN <<>>
    ELSE IF MatchesAt(s, pat, i) THEN rep \o ReplaceFrom(s, pat, rep, i + Len(pat))
    ELSE <<s[i]>> \o ReplaceFrom(s, pat, rep, i + 1)

\* s.replace(pat, rep)
Replace(s, pat, rep) == ReplaceFrom(s, pat, rep, 1)

\* the entities dict of clean_text, in its order; the dashes are one character each
Entities ==
    << << <<"&", "n", "b", "s", "p", ";">>, <<" ">> >>,
       << <<"&", "a", "m", "p", ";">>, <<"&">> >>,
       << <<"&", "l", "t", ";">>, <<"<">> >>,
       << <<"&", "g", "t", ";">>, <<">">> >>,
       << <<"&", "q", "u", "o", "t", ";">>, <<"\"">> >>,
       << <<"&", "a", "p", "o", "s", ";">>, <<"'">> >>,
       << <<"&", "#", "3", "9", ";">>, <<"'">> >>,
       << <<"&", "h", "e", "l", "l", "i", "p", ";">>, <<".", ".", ".">> >>,
       << <<"&", "m", "d", "a", "s", "h", ";">>, <<"em-dash">> >>,
       << <<"&", "n", "d", "a", "s", "h", ";">>, <<"en-dash">> >> >>

\* for entity, replacement in entities.items(): text = text.replace(entity, replacement)
RECURSIVE ReplaceEntities(_, _)
ReplaceEntities(s, k) ==
    IF k > Len(Entities) THEN s
    ELSE ReplaceEntities(Replace(s, Entities[k][1], Entities[k][2]), k + 1)

\* the length of the run of characters of class that starts at position i
RECURSIVE RunLength(_, _, _)
RunLength(s, class, i) ==
    IF i <= Len(s) /\ s[i] \in class THEN 1 + RunLength(s, class, i + 1) ELSE 0

\* whether prefix, one or more characters of class and ';' occur in s at position i
EntityAt(s, prefix, class, i) ==
    /\ MatchesAt(s, prefix, i)
    /\ RunLength(s, class, i + Len(prefix)) > 0
    /\ MatchesAt(s, <<";">>, i + Len(prefix) + RunLength(s, class, i + Len(prefix)))

\* re.sub of prefix class+ ';' by nothing
RECURSIVE RemoveEntities(_, _, _, _)
RemoveEntities(s, prefix, class, i) ==
    IF i > Len(s) THEN <<>>
    ELSE IF EntityAt(s, prefix, class, i)
         THEN RemoveEntities(s, prefix, class,
                             i + Len(prefix) + RunLength(s, class, i + Len(prefix)) + 1)
         ELSE <<s[i]>> \o RemoveEntities(s, prefix, class, i + 1)

\* ' '.join(s.split()) on a stripped s: every run of whitespace becomes one space
RECURSIVE CollapseFrom(_, _)
CollapseFrom(s, i) ==
    IF i > Len(s) THEN <<>>
    ELSE IF s[i] \notin Whitespace THEN <<s[i]>> \o CollapseFrom(s, i + 1)
    ELSE IF s[i - 1] \in Whitespace THEN CollapseFrom(s, i + 1)
    ELSE <<" ">> \o CollapseFrom(s, i + 1)

clean_text(text) ==
    IF text = <<>> THEN <<>>
    ELSE CollapseFrom(
            Strip(RemoveEntities(
                    RemoveEntities(ReplaceEntities(text, 1), <<"&", "#">>, Digits, 1),
                    <<"&">>, WordChars, 1)),
            1)

RECURSIVE Keep(_, _)
Keep(s, class) ==
    IF s = <<>> THEN <<>>
    ELSE (IF Head(s) \in class THEN <<Head(s)>> ELSE <<>>) \o Keep(Tail(s), class)

Count(s, c) == Cardinality({i \in DOMAIN s : s[i] = c})

\* s.rindex(c), c occurring in s
RIndex(s, c) == CHOOSE i \in DOMAIN s : s[i] = c /\ \A j \in DOMAIN s : s[j] = c => j <= i

PriceChars == Digits \cup {".", ","}

\* a slip that takes a lone comma as decimal only before exactly two digits
SeparatedExactlyTwo(cleaned) ==
    IF Count(cleaned, ",") > 0 /\ Count(cleaned, ".") > 0
    THEN IF RIndex(cleaned, ",") > RIndex(cleaned, ".")
         THEN Replace(Keep(cleaned, Digits \cup {","}), <<",">>, <<".">>)
         ELSE Keep(cleaned, Digits \cup {"."})
    ELSE IF Count(cleaned, ",") > 0
    THEN IF Count(cleaned, ",") = 1 /\ Len(cleaned) - RIndex(cleaned, ",") = 2
         THEN Replace(cleaned, <<",">>, <<".">>)
         ELSE Keep(cleaned, Digits)
    ELSE cleaned

\* the separator handling of normalize_price on cleaned
Separated(cleaned) ==
    IF Count(cleaned, ",") > 0 /\ Count(cleaned, ".") > 0
    THEN IF RIndex(cleaned, ",") > RIndex(cleaned, ".")
         THEN Replace(Keep(cleaned, Digits \cup {","}), <<",">>, <<".">>)
         ELSE Keep(cleaned, Digits \cup {"."})
    ELSE IF Count(cleaned, ",") > 0
    THEN IF Count(cleaned, ",") = 1 /\ Len(cleaned) - RIndex(cleaned, ",") <= 2
         THEN Replace(cleaned, <<",">>, <<".">>)
         ELSE Keep(cleaned, Digits)
    ELSE cleaned

\* whether float(s) accepts s, a string of digits and dots
IsFloat(s) == Count(s, ".") <= 1 /\ HasDigit(s)

IntDigits(s) == IF Count(s, ".") = 0 THEN s ELSE SubSeq(s, 1, RIndex(s, ".") - 1)

FracDigits(s) == IF Count(s, ".") = 0 THEN <<>> ELSE SubSeq(s, RIndex(s, ".") + 1, Len(s))

DigitValue(c) == CHOOSE n \in 0..9 : Digit(n) = c

RECURSIVE ToNat(_)
ToNat(digits) ==
    IF digits = <<>> THEN 0
    ELSE 10 * ToNat(SubSeq(digits, 1, Len(digits) - 1)) + DigitValue(digits[Len(digits)])

RECURSIVE DropTrailingZeros(_)
DropTrailingZeros(digits) ==
    IF digits # <<>> /\ digits[Len(digits)] = "0"
    THEN DropTrailingZeros(SubSeq(digits, 1, Len(digits) - 1)) ELSE digits

\* repr of the float that float(s) gives, s with not more digits than a float holds
FloatRepr(s) ==
    Str(ToNat(IntDigits(s))) \o <<".">>
    \o (IF DropTrailingZeros(FracDigits(s)) = <<>> THEN <<"0">>
        ELSE DropTrailingZeros(FracDigits(s)))

\* f"{value:.2f}" of that float, s with at most two digits after the dot
Format2f(s) ==
    Str(ToNat(IntDigits(s))) \o <<".">>
    \o SubSeq(FracDigits(s) \o <<"0", "0">>, 1, 2)

\* the currency signs; each is one character of the price string
CurrencyMap ==
    << <<"$", <<"U", "S", "D">> >>,
       <<"euro-sign", <<"E", "U", "R">> >>,
       <<"pound-sign", <<"G", "B", "P">> >>,
       <<"yen-sign", <<"J", "P", "Y">> >>,
       <<"rupee-sign", <<"I", "N", "R">> >> >>

CurrencySigns == {CurrencyMap[i][1] : i \in DOMAIN CurrencyMap}

\* the code of the first currency sign of price_str, 'USD' when it has none
CurrencyCode(price_str) ==
    IF \E i \in DOMAIN price_str : price_str[i] \in CurrencySigns
    THEN Get(CurrencyMap,
             price_str[CHOOSE i \in DOMAIN price_str :
                          /\ price_str[i] \in CurrencySigns
                          /\ \A j \in 1..(i - 1) : price_str[j] \notin CurrencySigns])
    ELSE <<"U", "S", "D">>

\* normalize_price: ok is false where it returns None
normalize_price(price_str) ==
    IF price_str # <<>> /\ IsFloat(Separated(Keep(price_str, PriceChars)))
    THEN [ok |-> TRUE,
          value |-> FloatRepr(Separated(Keep(price_str, PriceChars))),
          text |-> Format2f(Separated(Keep(price_str, PriceChars))),
          currency |-> CurrencyCode(price_str),
          original |-> price_str]
    ELSE [ok |-> FALSE]

\* digits.lstrip('+')
RECURSIVE LStripPlus(_)
LStripPlus(s) == IF s # <<>> /\ Head(s) = "+" THEN LStripPlus(Tail(s)) ELSE s

\* re.sub(r'[^\d+]', '', phone)
PhoneDigits(phone) == Keep(phone, Digits \cup {"+"})

PhoneMinDigits == 10

\* normalize_phone: ok is false where it returns None
normalize_phone(phone) ==
    IF phone = <<>> \/ Len(LStripPlus(PhoneDigits(phone))) < PhoneMinDigits
    THEN [ok |-> FALSE]
    ELSE IF StartsWith(PhoneDigits(phone), <<"+">>)
    THEN [ok |-> TRUE, value |-> PhoneDigits(phone)]
    ELSE IF Len(LStripPlus(PhoneDigits(phone))) = PhoneMinDigits
    THEN [ok |-> TRUE, value |-> <<"+", "1">> \o LStripPlus(PhoneDigits(phone))]
    ELSE [ok |-> TRUE, value |-> <<"+">> \o LStripPlus(PhoneDigits(phone))]

\* normalized[k] = clean_text(str(normalized[k])) if k in normalized
CleanField(product, k) ==
    IF HasKey(product, k) THEN DictSet(product, k, clean_text(PyStr(Get(product, k))))
    ELSE product

\* the price fields of normalize_product
PriceFields(product) ==
    IF /\ HasKey(product, "price")
       /\ Get(product, "price") \notin {None, <<>>}
       /\ normalize_price(PyStr(Get(product, "price"))).ok
    THEN DictSet(
            DictSet(
                DictSet(product, "price_value",
                        normalize_price(PyStr(Get(product, "price"))).value),
                "price_currency", normalize_price(PyStr(Get(product, "price"))).currency),
            "price",
            normalize_price(PyStr(Get(product, "price"))).currency
            \o normalize_price(PyStr(Get(product, "price"))).text)
    ELSE product

normalize_product(product) == PriceFields(CleanField(CleanField(product, "title"), "description"))

----------------------------------------------------------------------------
(* inputs of the identity engine *)

IdFields == {"title", "url", "description"}

IdValues == {<<"A">>, <<"B">>, None}

\* every dict over IdFields with values in IdValues, in every field order
AllRecords ==
    UNION {{r \in [1..n -> IdFields \X IdValues] : IsDict(r)} : n \in 0..Cardinality(IdFields)}

KeyFieldChoices ==
    {<<>>, <<"title">>, <<"url">>, <<"title", "url">>, <<"url", "title">>, <<"title", "title">>}

MaxRecords == 3

\* records for the lists deduplicate is run on
DedupPool ==
    { <<>>,
      << <<"title", <<"A">> >>, <<"url", <<"B">> >> >>,
      << <<"url", <<"B">> >>, <<"title", <<"A">> >> >>,
      << <<"title", <<"A">> >>, <<"url", <<"B">> >>, <<"description", <<"A">> >> >>,
      << <<"title", <<"A">> >>, <<"url", <<"B">> >>, <<"description", <<"B">> >> >>,
      << <<"title", <<"A">> >>, <<"url", <<"A">> >> >>,
      << <<"title", <<"A">> >> >>,
      << <<"title", None>>, <<"url", <<"B">> >> >>,
      << <<"description", <<"A">> >> >> }

ListsOf(pool, n) == UNION {[1..m -> pool] : m \in 0..n}

\* a Validator just constructed, validate_result not yet called
ValIdle ==
    /\ errors = <<>>
    /\ runs = 0
    /\ result = EmptyDict
    /\ total_records = 0
    /\ invalid_records = 0
    /\ validated = EmptyDict
    /\ raised = FALSE
    /\ handed = EmptyDict

\* no job running
JobIdle ==
    /\ modules = <<>>
    /\ pc = "none"
    /\ next_module = 0
    /\ calls = <<>>
    /\ driver = "none"
    /\ output = [kind |-> "none"]

\* an empty snapshot directory, no call in progress
StoreIdle ==
    /\ files = EmptyDict
    /\ clock = 0
    /\ writing = [w \in Writers |-> Idle]
    /\ save_log = <<>>
    /\ loaded = Unset

\* detect_changes not in use
DiffIdle ==
    /\ current = EmptyDict
    /\ previous = NoSnapshot
    /\ key_map = NoKeyMap
    /\ changes = Unset

\* no fetch call
FetchIdle ==
    /\ wait_until = "none"
    /\ max_retries = 0
    /\ fpc = "none"
    /\ attempt = 0
    /\ position = 0
    /\ navigations = <<>>
    /\ page_open = FALSE
    /\ last_error = [none |-> TRUE]
    /\ fetched = [kind |-> "none"]

\* no scroll pass
ScrollIdle ==
    /\ page_height = 0
    /\ grow_left = 0
    /\ scroll_y = 0
    /\ viewport_height = 0
    /\ total_height = 0
    /\ current_position = 0
    /\ spc = "none"

\* no rate limiter
RateIdle ==
    /\ shared = FALSE
    /\ time_now = 0
    /\ request_domain = <<>>
    /\ rpc = <<>>
    /\ wake_at = <<>>
    /\ granted_at = <<>>
    /\ last_request = <<>>
    /\ lock = <<>>

\* no shared page
PageIdle ==
    /\ dom = {}
    /\ pending = {}
    /\ page_at_fetch = {}
    /\ run_order = <<>>
    /\ cursor = 0
    /\ found = <<>>

\* no function applied on its own
FnIdle ==
    /\ arg = <<>>
    /\ ret = <<>>
    /\ applied = "none"

\* the identity engine not in use
IdIdle ==
    /\ records = <<>>
    /\ key_fields = <<>>
    /\ record_id = <<>>
    /\ unique_records = <<>>
    /\ fn = "none"

InitIdentity ==
    /\ records \in [1..2 -> AllRecords]
    /\ key_fields \in KeyFieldChoices
    /\ record_id = <<>>
    /\ unique_records = <<>>
    /\ fn = "none"
    /\ ValIdle
    /\ DiffIdle
    /\ StoreIdle
    /\ JobIdle
    /\ FnIdle
    /\ FetchIdle
    /\ ScrollIdle
    /\ RateIdle
    /\ PageIdle

InitDedup ==
    /\ records \in ListsOf(DedupPool, MaxRecords)
    /\ key_fields \in KeyFieldChoices
    /\ record_id = <<>>
    /\ unique_records = <<>>
    /\ fn = "none"
    /\ ValIdle
    /\ DiffIdle
    /\ StoreIdle
    /\ JobIdle
    /\ FnIdle
    /\ FetchIdle
    /\ ScrollIdle
    /\ RateIdle
    /\ PageIdle

\* Deduplicator.generate_id applied to every input record
GenerateId ==
    /\ fn = "none"
    /\ record_id' = [i \in DOMAIN records |-> generate_id(records[i], key_fields)]
    /\ fn' = "generate_id"
    /\ UNCHANGED <<records, key_fields, unique_records>>
    /\ UNCHANGED <<varsVal, varsDiff, varsStore, varsJob, varsFn, varsFetch, varsScroll, varsRate, varsPage>>

\* Deduplicator.deduplicate applied to the input list
Deduplicate ==
    /\ fn = "none"
    /\ unique_records' = deduplicate(records, key_fields)
    /\ record_id' = [i \in DOMAIN records |-> generate_id(records[i], key_fields)]
    /\ fn' = "deduplicate"
    /\ UNCHANGED <<records, key_fields>>
    /\ UNCHANGED <<varsVal, varsDiff, varsStore, varsJob, varsFn, varsFetch, varsScroll, varsRate, varsPage>>

NextIdentity == GenerateId

NextDedup == Deduplicate

SpecIdentity == InitIdentity /\ [][NextIdentity]_vars

SpecDedup == InitDedup /\ [][NextDedup]_vars

\* generate_fingerprint on its own: two records to fingerprint
InitFingerprint ==
    /\ arg \in [1..2 -> AllRecords]
    /\ ret = <<>>
    /\ applied = "none"
    /\ IdIdle
    /\ ValIdle
    /\ DiffIdle
    /\ StoreIdle
    /\ JobIdle
    /\ FetchIdle
    /\ ScrollIdle
    /\ RateIdle
    /\ PageIdle

\* Deduplicator.generate_fingerprint applied to each of the two records
GenerateFingerprint ==
    /\ applied = "none"
    /\ ret' = [i \in DOMAIN arg |-> generate_fingerprint(arg[i])]
    /\ applied' = "generate_fingerprint"
    /\ UNCHANGED arg
    /\ UNCHANGED <<varsId, varsVal, varsDiff, varsStore, varsJob, varsFetch, varsScroll, varsRate, varsPage>>

NextFingerprint == GenerateFingerprint

SpecFingerprint == InitFingerprint /\ [][NextFingerprint]_vars

----------------------------------------------------------------------------
(* inputs of the validator *)

MaxValRecords == 2

MaxRuns == 2

Lamp == <<"L", "a", "m", "p">>

ProductOk ==
    << <<"title", <<" ">> \o Lamp \o <<" ">> >>, <<"price", <<"$", "9">> >>, <<"sku", <<"7">> >> >>

ProductBlankTitle == << <<"title", <<" ">> >>, <<"price", <<"$", "9">> >> >>

ProductPriceTbd == << <<"title", Lamp>>, <<"price", <<"T", "B", "D">> >> >>

ProductNoTitle == << <<"price", <<"$", "9">> >> >>

ProductNullTitle == << <<"title", None>> >>

ProductLongTitle == << <<"title", [i \in 1..(TitleMax + 1) |-> "x"]>> >>

ProductPool == {ProductOk, ProductBlankTitle, ProductPriceTbd}

HttpUrl == <<"h", "t", "t", "p", ":", "a">>

ImageOk == << <<"url", HttpUrl>>, <<"alt", Lamp>>, <<"sku", <<"7">> >> >>

ImageRelative == << <<"url", <<"/", "a">> >>, <<"alt", Lamp>> >>

AssetOk == << <<"filename", <<"a">> >>, <<"url", HttpUrl>>, <<"type", <<"P", "D", "F">> >> >>

AssetNoFilename == << <<"url", HttpUrl>>, <<"type", <<"P", "D", "F">> >> >>

MailOk == <<"a", "@", "b", ".", "c">>

MailBad == <<"a", "@", "b">>

ContactsOk == << <<"emails", <<MailOk>> >>, <<"phones", <<>> >>, <<"socials", <<>> >> >>

ContactsBadMail == << <<"emails", <<MailOk, MailBad>> >>, <<"phones", <<>> >>, <<"socials", <<>> >> >>

ContactsEmpty == << <<"emails", <<>> >>, <<"phones", <<>> >>, <<"socials", <<>> >> >>

TextOk ==
    << <<"title", Lamp>>, <<"meta", <<>> >>, <<"headings", <<Lamp>> >>, <<"paragraphs", <<>> >> >>

CrawlOk == <<HttpUrl>>

\* results with several categories
MixedResults ==
    { ("products" :> <<ProductOk, ProductBlankTitle>>) @@ ("images" :> <<ImageRelative, ImageOk>>)
        @@ ("contacts" :> ContactsBadMail) @@ ("text" :> TextOk)
        @@ ("assets" :> <<AssetNoFilename, AssetOk>>) @@ ("crawl" :> CrawlOk),
      ("images" :> <<ImageOk>>) @@ ("contacts" :> ContactsOk) @@ ("text" :> TextOk),
      ("contacts" :> ContactsBadMail),
      ("contacts" :> ContactsEmpty) @@ ("images" :> <<>>),
      ("products" :> <<ProductNoTitle, ProductLongTitle, ProductOk>>) @@ ("assets" :> <<AssetOk>>),
      ("crawl" :> CrawlOk),
      ("images" :> <<ImageRelative>>) @@ ("assets" :> <<AssetNoFilename>>),
      ("products" :> <<ProductNullTitle>>) @@ ("text" :> TextOk) }

ResultPool ==
    {("products" :> ps) : ps \in ListsOf(ProductPool, MaxValRecords)} \cup MixedResults

InitValidator == IdIdle /\ ValIdle /\ DiffIdle /\ StoreIdle /\ JobIdle /\ FnIdle /\ FetchIdle /\ ScrollIdle /\ RateIdle /\ PageIdle

\* Validator(): cli.py line 165, main.py line 140
NewValidator ==
    /\ runs > 0
    /\ errors' = <<>>
    /\ runs' = 0
    /\ result' = EmptyDict
    /\ total_records' = 0
    /\ invalid_records' = 0
    /\ validated' = EmptyDict
    /\ raised' = FALSE
    /\ handed' = EmptyDict
    /\ UNCHANGED <<varsId, varsDiff, varsStore, varsJob, varsFn, varsFetch, varsScroll, varsRate, varsPage>>

\* Validator.clear_errors
ClearErrors ==
    /\ errors # <<>>
    /\ errors' = <<>>
    /\ UNCHANGED <<runs, result, total_records, invalid_records, validated, raised, handed>>
    /\ UNCHANGED <<varsId, varsDiff, varsStore, varsJob, varsFn, varsFetch, varsScroll, varsRate, varsPage>>

\* validator.validate_result(res) inside the try/except of the drivers
\* (cli.py 166-170, main.py 141-147): on ValueError they go on with res itself
ValidateResult(res) ==
    /\ runs < MaxRuns
    /\ \E r \in {validate_result(errors, res)} :
           /\ errors' = r.errors
           /\ total_records' = r.total_records
           /\ invalid_records' = r.invalid_records
           /\ validated' = r.validated
           /\ raised' = r.raised
           /\ handed' = IF r.raised THEN res ELSE r.validated
    /\ runs' = runs + 1
    /\ result' = res
    /\ UNCHANGED <<varsId, varsDiff, varsStore, varsJob, varsFn, varsFetch, varsScroll, varsRate, varsPage>>

NextValidator ==
    \/ NewValidator
    \/ ClearErrors
    \/ \E res \in ResultPool : ValidateResult(res)

SpecValidator == InitValidator /\ [][NextValidator]_vars

----------------------------------------------------------------------------
(* inputs of detect_changes *)

MaxDiffRecords == 2

RecA == << <<"title", <<"A">> >>, <<"url", <<"U">> >>, <<"price", <<"1">> >> >>

\* RecA with another price: same identity under title and url, other fingerprint
RecA2 == << <<"title", <<"A">> >>, <<"url", <<"U">> >>, <<"price", <<"2">> >> >>

RecB == << <<"title", <<"B">> >>, <<"url", <<"U">> >>, <<"price", <<"1">> >> >>

\* a record with no key field: the identity of the empty record
RecP == << <<"price", <<"1">> >> >>

\* a record without url: the identity of RecA under title alone
RecC == << <<"title", <<"A">> >> >>

DiffPool == {RecA, RecA2, RecC, <<>>}

ImgA == << <<"url", <<"U">> >>, <<"alt", <<"A">> >> >>

ImgB == << <<"url", <<"U">> >>, <<"alt", <<"B">> >> >>

DiffResults ==
    {("products" :> ps) : ps \in ListsOf(DiffPool, MaxDiffRecords)}
    \cup {("images" :> <<ImgA>>),
          ("products" :> <<RecP>>),
          ("products" :> <<RecA>> @@ "images" :> <<ImgB>>),
          ("products" :> <<RecB>> @@ "images" :> <<ImgA>> @@ "contacts" :> <<>>)}

\* key_fields arguments of save_snapshot and of detect_changes
SaveKeyMaps == {NoKeyMap, DefaultKeyMap, ("products" :> <<"title">>)}

DiffKeyMaps ==
    {NoKeyMap, ("products" :> <<"title">>), ("images" :> <<"url">>),
     ("products" :> <<"title">> @@ "contacts" :> <<"emails">>)}

DiffJob == <<"shop">>

\* a previous snapshot is None or what save_snapshot wrote for some result
InitDiff ==
    /\ current \in DiffResults
    /\ previous \in {NoSnapshot}
                    \cup {MakeSnapshot(DiffJob, 0, d, k) : d \in DiffResults, k \in SaveKeyMaps}
    /\ key_map \in DiffKeyMaps
    /\ changes = Unset
    /\ IdIdle
    /\ ValIdle
    /\ StoreIdle
    /\ JobIdle
    /\ FnIdle
    /\ FetchIdle
    /\ ScrollIdle
    /\ RateIdle
    /\ PageIdle

\* ChangeDetector.detect_changes(current, previous, key_fields)
DetectChanges ==
    /\ changes = Unset
    /\ changes' = detect_changes(current, previous, key_map)
    /\ UNCHANGED <<current, previous, key_map>>
    /\ UNCHANGED <<varsId, varsVal, varsStore, varsJob, varsFn, varsFetch, varsScroll, varsRate, varsPage>>

NextDiff == DetectChanges

SpecDiff == InitDiff /\ [][NextDiff]_vars

----------------------------------------------------------------------------
(* the snapshot store in use *)

MaxSaves == 2

MaxClock == 2

Shop == <<"s", "h", "o", "p">>

ShopEu == <<"s", "h", "o", "p", "_", "e", "u">>

JobIds == {Shop, ShopEu}

\* the (data, key_fields) arguments of the save_snapshot calls
SaveCalls ==
    {[data |-> ("products" :> <<RecA>>), key_fields |-> NoKeyMap],
     [data |-> ("products" :> <<RecA2, RecC>>), key_fields |-> DefaultKeyMap]}

InitStore == IdIdle /\ ValIdle /\ DiffIdle /\ StoreIdle /\ JobIdle /\ FnIdle /\ FetchIdle /\ ScrollIdle /\ RateIdle /\ PageIdle

SavesBegun == Len(save_log) + Cardinality({w \in Writers : writing[w] # Idle})

\* time passes
Tick ==
    /\ clock < MaxClock
    /\ clock' = clock + 1
    /\ UNCHANGED <<files, writing, save_log, loaded>>
    /\ UNCHANGED <<varsId, varsVal, varsDiff, varsJob, varsFn, varsFetch, varsScroll, varsRate, varsPage>>

\* save_snapshot up to open(snapshot_path, 'w'): the timestamp is read, the
\* file is created, or emptied when a file of that name exists
SaveOpen(w, job_id, data, keys) ==
    /\ writing[w] = Idle
    /\ SavesBegun < MaxSaves
    /\ files' = WriteFile(files, SnapshotPath(job_id, Timestamp(clock)), BrokenText, clock)
    /\ writing' = [writing EXCEPT ![w] =
                      [job_id |-> job_id, data |-> data, key_fields |-> keys,
                       timestamp |-> Timestamp(clock)]]
    /\ UNCHANGED <<clock, save_log, loaded>>
    /\ UNCHANGED <<varsId, varsVal, varsDiff, varsJob, varsFn, varsFetch, varsScroll, varsRate, varsPage>>

\* another writer has the same file open
SharedWith(w) ==
    \E x \in Writers \ {w} :
        /\ writing[x] # Idle
        /\ SnapshotPath(writing[x].job_id, writing[x].timestamp)
             = SnapshotPath(writing[w].job_id, writing[w].timestamp)

\* the rest of save_snapshot: json.dump, close, return.  Two writers on one
\* file write at their own offsets: the text is the dump or an overlay of both.
SaveWrite(w) ==
    /\ writing[w] # Idle
    /\ \E text \in {JsonDump(MakeSnapshot(writing[w].job_id, writing[w].timestamp,
                                            writing[w].data, writing[w].key_fields))}
                     \cup (IF SharedWith(w) THEN {BrokenText} ELSE {}) :
           files' = WriteFile(files, SnapshotPath(writing[w].job_id, writing[w].timestamp),
                              text, clock)
    /\ save_log' = Append(save_log, [writer |-> w, call |-> writing[w]])
    /\ writing' = [writing EXCEPT ![w] = Idle]
    /\ UNCHANGED <<clock, loaded>>
    /\ UNCHANGED <<varsId, varsVal, varsDiff, varsJob, varsFn, varsFetch, varsScroll, varsRate, varsPage>>

\* load_latest_snapshot(job_id)
LoadLatest(job_id) ==
    /\ \E r \in load_latest_snapshot(files, job_id) :
           loaded' = [job_id |-> job_id, raised |-> r.raised, value |-> r.value]
    /\ UNCHANGED <<files, clock, writing, save_log>>
    /\ UNCHANGED <<varsId, varsVal, varsDiff, varsJob, varsFn, varsFetch, varsScroll, varsRate, varsPage>>

NextStore ==
    \/ Tick
    \/ \E w \in Writers, job_id \in JobIds, c \in SaveCalls :
           SaveOpen(w, job_id, c.data, c.key_fields)
    \/ \E w \in Writers : SaveWrite(w)
    \/ \E job_id \in JobIds : LoadLatest(job_id)

SpecStore == InitStore /\ [][NextStore]_vars

----------------------------------------------------------------------------
(* a job of the drivers: cli.py execute_job, scraper_api/main.py scrape *)

MaxModules == 2

\* the modules the loop has a branch for
KnownModules == {"products", "images", "contacts", "text", "assets"}

\* the names a request can hold: the known ones and one no branch handles
ModuleNames == KnownModules \cup {"videos"}

RawLamp ==
    << <<"title", <<" ", "L", "a", "m", "p", " ", "&", "a", "m", "p", ";", " ", "C", "o">> >>,
       <<"price", <<"$", "9">> >>, <<"link", HttpUrl>> >>

RawTbd == << <<"title", Lamp>>, <<"price", <<"T", "B", "D">> >>, <<"link", HttpUrl>> >>

\* the lists a strategy's extract can return
Extracted(module) ==
    CASE module = "products" -> {<<>>, <<RawLamp>>, <<RawTbd, RawLamp>>}
      [] module = "images" -> {<<>>, <<ImageOk>>, <<ImageRelative>>, <<ImageRelative, ImageOk>>}
      [] module = "contacts" -> {<<ContactsOk>>, <<ContactsEmpty>>}
      [] module = "text" -> {<<>>, <<TextOk>>}
      [] module = "assets" -> {<<>>, <<AssetOk>>}

\* what an extract call does: it raises, or it returns a list
Outcomes(module) ==
    {[raised |-> TRUE, records |-> <<>>]}
    \cup {[raised |-> FALSE, records |-> l] : l \in Extracted(module)}

\* result after the try block of the loop body for module, whose extract did out
Store(res, module, out) ==
    IF out.raised THEN res
    ELSE CASE module = "products" ->
                With(res, "products",
                     [i \in DOMAIN out.records |-> normalize_product(out.records[i])])
           [] module \in {"images", "assets"} -> With(res, module, out.records)
           [] module \in {"contacts", "text"} ->
                IF out.records # <<>> THEN With(res, module, out.records[1]) ELSE res

\* a slip that has the try around the loop: a raise ends the loop
NextIndexBreaks(i, out, n) == IF out.raised THEN n + 1 ELSE i + 1

\* the loop goes on to the next module whatever the try block did
NextIndex(i, out, n) == i + 1

Drivers == {"cli", "service"}

\* what a job that raised gives its caller: execute_job lets the exception
\* through and writes nothing, scrape answers success=False
Failure(drv) ==
    IF drv = "cli" THEN [kind |-> "raised"] ELSE [kind |-> "response", success |-> FALSE]

\* what the driver does with the result it goes on with: execute_job writes
\* it to the output file, scrape answers success=True with it as data
Delivery(drv, data) ==
    IF drv = "cli" THEN [kind |-> "file", data |-> data]
    ELSE [kind |-> "response", success |-> TRUE, data |-> data]

InitJob ==
    /\ modules \in ListsOf(ModuleNames, MaxModules)
    /\ pc = "fetch"
    /\ next_module = 1
    /\ calls = <<>>
    /\ driver \in Drivers
    /\ output = [kind |-> "none"]
    /\ IdIdle
    /\ ValIdle
    /\ DiffIdle
    /\ StoreIdle
    /\ FnIdle
    /\ FetchIdle
    /\ ScrollIdle
    /\ RateIdle
    /\ PageIdle

\* up to the loop: fetcher.fetch returns the page, or the job fails with what
\* was raised before any strategy ran
FetchPage ==
    /\ pc = "fetch"
    /\ \/ pc' = "extract" /\ UNCHANGED output
       \/ pc' = "failed" /\ output' = Failure(driver)
    /\ UNCHANGED <<modules, next_module, calls, driver>>
    /\ UNCHANGED <<varsId, varsVal, varsDiff, varsStore, varsFn, varsFetch, varsScroll, varsRate, varsPage>>

\* one pass of "for module in modules" with its try/except
Extract ==
    /\ pc = "extract"
    /\ next_module <= Len(modules)
    /\ IF modules[next_module] \in KnownModules
       THEN \E out \in Outcomes(modules[next_module]) :
               /\ result' = Store(result, modules[next_module], out)
               /\ calls' = Append(calls, [module |-> modules[next_module],
                                          raised |-> out.raised, records |-> out.records])
               /\ next_module' = NextIndex(next_module, out, Len(modules))
       ELSE /\ next_module' = next_module + 1
            /\ UNCHANGED <<result, calls>>
    /\ UNCHANGED <<modules, pc, driver, output>>
    /\ UNCHANGED <<errors, runs, total_records, invalid_records, validated, raised, handed>>
    /\ UNCHANGED <<varsId, varsDiff, varsStore, varsFn, varsFetch, varsScroll, varsRate, varsPage>>

\* after the loop: page.close(), Validator(), validate_result(result) in its
\* try/except, and the job returns what that leaves
Finish ==
    /\ pc = "extract"
    /\ next_module > Len(modules)
    /\ \E r \in {validate_result(<<>>, result)} :
           /\ errors' = r.errors
           /\ total_records' = r.total_records
           /\ invalid_records' = r.invalid_records
           /\ validated' = r.validated
           /\ raised' = r.raised
           /\ handed' = IF r.raised THEN result ELSE r.validated
           /\ output' = Delivery(driver, IF r.raised THEN result ELSE r.validated)
    /\ runs' = 1
    /\ pc' = "done"
    /\ UNCHANGED <<result, modules, next_module, calls, driver>>
    /\ UNCHANGED <<varsId, varsDiff, varsStore, varsFn, varsFetch, varsScroll, varsRate, varsPage>>

NextJob == FetchPage \/ Extract \/ Finish

SpecJob == InitJob /\ [][NextJob]_vars

----------------------------------------------------------------------------
(* normalize_price applied on its own *)

MaxPriceLen == 4

PriceAlphabet == {"1", "5", ",", ".", "euro-sign", "T"}

\* the price strings of the docstring and of the tests, longer than MaxPriceLen
PriceExamples ==
    {<<"$", "1", "9", ".", "9", "9">>, <<"euro-sign", "1", "5", ",", "5", "0">>, <<"pound-sign", "1", ".", "2", "3", "4", ",", "5", "6">>, <<"$", "1", ",", "2", "3", "4", ".", "5", "6">>, <<"1", ",", "0", "0", "0">>,
     <<"1", ",", "2", "3", "4", ",", "5", "6">>, <<"1", "2", ",", "5", "0">>, <<"T", "B", "D">>}

PriceStrings == ListsOf(PriceAlphabet, MaxPriceLen) \cup PriceExamples

InitPrice ==
    /\ arg \in PriceStrings
    /\ ret = <<>>
    /\ applied = "none"
    /\ IdIdle
    /\ ValIdle
    /\ DiffIdle
    /\ StoreIdle
    /\ JobIdle
    /\ FetchIdle
    /\ ScrollIdle
    /\ RateIdle
    /\ PageIdle

\* Normalizer.normalize_price(arg)
NormalizePrice ==
    /\ applied = "none"
    /\ ret' = normalize_price(arg)
    /\ applied' = "normalize_price"
    /\ UNCHANGED arg
    /\ UNCHANGED <<varsId, varsVal, varsDiff, varsStore, varsJob, varsFetch, varsScroll, varsRate, varsPage>>

NextPrice == NormalizePrice

SpecPrice == InitPrice /\ [][NextPrice]_vars

----------------------------------------------------------------------------
(* normalize_phone applied on its own *)

MaxPhoneLen == 11

PhoneAlphabet == {"5", "+"}

\* the phone numbers of the documentation
PhoneExamples == {<<"5", "5", "5", "-", "1", "2", "3", "-", "4", "5", "6", "7">>, <<"+", "4", "4", " ", "2", "0", " ", "7", "9", "4", "6", " ", "0", "9", "5", "8">>, <<"1", "2", "3", "4", "5">>, <<"(", "5", "5", "5", ")", " ", "1", "2", "3", "-", "4", "5", "6", "7", " ", "x", "8", "9">>}

PhoneStrings == ListsOf(PhoneAlphabet, MaxPhoneLen) \cup PhoneExamples

InitPhone ==
    /\ arg \in PhoneStrings
    /\ ret = <<>>
    /\ applied = "none"
    /\ IdIdle
    /\ ValIdle
    /\ DiffIdle
    /\ StoreIdle
    /\ JobIdle
    /\ FetchIdle
    /\ ScrollIdle
    /\ RateIdle
    /\ PageIdle

\* Normalizer.normalize_phone(arg)
NormalizePhone ==
    /\ applied = "none"
    /\ ret' = normalize_phone(arg)
    /\ applied' = "normalize_phone"
    /\ UNCHANGED arg
    /\ UNCHANGED <<varsId, varsVal, varsDiff, varsStore, varsJob, varsFetch, varsScroll, varsRate, varsPage>>

NextPhone == NormalizePhone

SpecPhone == InitPhone /\ [][NextPhone]_vars

----------------------------------------------------------------------------
(* normalize_product applied on its own *)

\* a field left out of the record
Omitted == <<"omitted">>

ProductTitles == {Omitted, None, <<"A">>, <<" ", "A", " ", " ", "B", " ">>, <<"A", " ", "&", "a", "m", "p", ";", " ", "B">>}

ProductDescriptions == {Omitted, None, <<"B">>}

ProductPrices == {Omitted, None, <<>>, <<"T", "B", "D">>, <<"$", "1", "9", ".", "9", "9">>, <<"euro-sign", "1", "5", ",", "5", "0">>, <<"1", ",", "5">>}

ProductSkus == {Omitted, <<"X", "1">>}

\* the record with the fields given, the omitted ones left out
ProductOf(title, description, price, sku) ==
    (IF title = Omitted THEN <<>> ELSE << <<"title", title>> >>)
    \o (IF description = Omitted THEN <<>> ELSE << <<"description", description>> >>)
    \o (IF price = Omitted THEN <<>> ELSE << <<"price", price>> >>)
    \o (IF sku = Omitted THEN <<>> ELSE << <<"sku", sku>> >>)

RawProducts ==
    {ProductOf(t, d, p, s) : t \in ProductTitles, d \in ProductDescriptions,
                             p \in ProductPrices, s \in ProductSkus}

InitProduct ==
    /\ arg \in RawProducts
    /\ ret = <<>>
    /\ applied = "none"
    /\ IdIdle
    /\ ValIdle
    /\ DiffIdle
    /\ StoreIdle
    /\ JobIdle
    /\ FetchIdle
    /\ ScrollIdle
    /\ RateIdle
    /\ PageIdle

\* Normalizer.normalize_product(arg)
NormalizeProduct ==
    /\ applied = "none"
    /\ ret' = normalize_product(arg)
    /\ applied' = "normalize_product"
    /\ UNCHANGED arg
    /\ UNCHANGED <<varsId, varsVal, varsDiff, varsStore, varsJob, varsFetch, varsScroll, varsRate, varsPage>>

NextProduct == NormalizeProduct

SpecProduct == InitProduct /\ [][NextProduct]_vars

----------------------------------------------------------------------------
(* extractor.py: ProductExtractor.extract *)

ProductCap == 50

\* ProductExtractor.validate: bool(record.get("title"))
validate(record) == Get(record, "title") \notin {None, <<>>}

\* products[:n]
FirstN(products, n) == SubSeq(products, 1, IF Len(products) < n THEN Len(products) ELSE n)

\* whether extract calls _extract_from_dom: "if not products" after the JSON-LD phase
DomFallbackRuns(json_ld_products) == json_ld_products = <<>>

\* a slip that cuts the list to 50 before the titles are looked at
ExtractCutsFirst(json_ld_products, dom_products) ==
    SelectSeq(FirstN(IF DomFallbackRuns(json_ld_products) THEN dom_products ELSE json_ld_products,
                     ProductCap),
              validate)

\* extract, given what _extract_json_ld returns and what _extract_from_dom
\* returns when it is called
extract(json_ld_products, dom_products) ==
    FirstN(SelectSeq(IF DomFallbackRuns(json_ld_products) THEN dom_products ELSE json_ld_products,
                     validate),
           ProductCap)

MaxShortList == 2

MaxOverCap == 2

\* the i-th product of a phase: its title is blank where i is a multiple of
\* blank_every, and otherwise tells the phase and the position
PhaseProduct(phase, i, blank_every) ==
    << <<"title", IF blank_every > 0 /\ i % blank_every = 0 THEN <<>> ELSE <<phase>> \o Str(i)>>,
       <<"price", <<"$", "9">>>> >>

\* what a phase can return: short lists and lists around the cap, with no
\* blank title, with all titles blank, with every second or third one blank
PhaseLists(phase) ==
    {[i \in 1..n |-> PhaseProduct(phase, i, b)] :
        n \in (0..MaxShortList) \cup ((ProductCap - 1)..(ProductCap + MaxOverCap)),
        b \in 0..3}
    \cup {<< << <<"title", None>> >>, PhaseProduct(phase, 2, 0) >>}

InitExtract ==
    /\ arg \in [json_ld : PhaseLists("J"), dom : PhaseLists("D")]
    /\ ret = <<>>
    /\ applied = "none"
    /\ IdIdle
    /\ ValIdle
    /\ DiffIdle
    /\ StoreIdle
    /\ JobIdle
    /\ FetchIdle
    /\ ScrollIdle
    /\ RateIdle
    /\ PageIdle

\* ProductExtractor.extract on a page whose phases give arg
ExtractProducts ==
    /\ applied = "none"
    /\ ret' = [products |-> extract(arg.json_ld, arg.dom),
               dom_ran |-> DomFallbackRuns(arg.json_ld)]
    /\ applied' = "extract"
    /\ UNCHANGED arg
    /\ UNCHANGED <<varsId, varsVal, varsDiff, varsStore, varsJob, varsFetch, varsScroll, varsRate, varsPage>>

NextExtract == ExtractProducts

SpecExtract == InitExtract /\ [][NextExtract]_vars

----------------------------------------------------------------------------
(* clean_text applied on its own *)

MaxTextLen == 6

TextAlphabet == {"&", "a", ";", " "}

\* the text of the documentation, and entities of each kind
TextExamples ==
    {<<"T", "o", "m", " ", "&", "a", "m", "p", ";", " ", "J", "e", "r", "r", "y", "&", "n", "b", "s", "p", ";", "S", "h", "o", "w">>, <<"&", "#", "&", "#", "1", ";", "1", ";">>, <<"a", "&", "#", "3", "9", ";", "s", " ", "&", "#", "1", "6", "9", ";", " ", "&", "c", "o", "p", "y", ";">>, <<" ", "&", "l", "t", ";", "b", "&", "g", "t", ";", "\t", "\n">>}

TextStrings == ListsOf(TextAlphabet, MaxTextLen) \cup TextExamples

InitText ==
    /\ arg \in TextStrings
    /\ ret = <<>>
    /\ applied = "none"
    /\ IdIdle
    /\ ValIdle
    /\ DiffIdle
    /\ StoreIdle
    /\ JobIdle
    /\ FetchIdle
    /\ ScrollIdle
    /\ RateIdle
    /\ PageIdle

\* Normalizer.clean_text(arg)
CleanText ==
    /\ applied = "none"
    /\ ret' = clean_text(arg)
    /\ applied' = "clean_text"
    /\ UNCHANGED arg
    /\ UNCHANGED <<varsId, varsVal, varsDiff, varsStore, varsJob, varsFetch, varsScroll, varsRate, varsPage>>

NextText == CleanText

SpecText == InitText /\ [][NextText]_vars

----------------------------------------------------------------------------
(* fetcher.py: Fetcher.fetch *)

MaxRetries == 3

\* values of config.wait_until that page.goto accepts
WaitUntilValues == {"networkidle", "load", "domcontentloaded", "commit"}

\* wait_strategies of one attempt
WaitStrategies(first) == <<first, "domcontentloaded", "load">>

\* "if wait_strategy == wait_strategies[-1]": the strategy that failed is
\* compared with the last one by value
IsLastStrategy(strategies, i) == strategies[i] = strategies[Len(strategies)]

\* a slip that gives up one attempt early
IsFinalAttemptEarly(a, retries) == ~(a < retries - 2)

\* the else branch of "if attempt < max_retries - 1"
IsFinalAttempt(a, retries) == ~(a < retries - 1)

\* the exception a failed page.goto raises
GotoError(a, i, strategy) == [attempt |-> a, position |-> i, wait_until |-> strategy]

InitFetch ==
    /\ wait_until \in WaitUntilValues
    /\ max_retries \in 0..MaxRetries
    /\ fpc = "start"
    /\ attempt = 0
    /\ position = 0
    /\ navigations = <<>>
    /\ page_open = FALSE
    /\ last_error = [none |-> TRUE]
    /\ fetched = [kind |-> "none"]
    /\ IdIdle
    /\ ValIdle
    /\ DiffIdle
    /\ StoreIdle
    /\ JobIdle
    /\ FnIdle
    /\ ScrollIdle
    /\ RateIdle
    /\ PageIdle

\* up to the retry loop: the page is opened; with nothing to iterate the loop
\* is skipped, the page closed and Exception("Failed to fetch page") raised
OpenPage ==
    /\ fpc = "start"
    /\ IF max_retries > 0
       THEN /\ fpc' = "goto"
            /\ position' = 1
            /\ page_open' = TRUE
            /\ UNCHANGED fetched
       ELSE /\ fpc' = "raised"
            /\ page_open' = FALSE
            /\ fetched' = [kind |-> "raised", error |-> [generic |-> TRUE]]
            /\ UNCHANGED position
    /\ UNCHANGED <<wait_until, max_retries, attempt, navigations, last_error>>
    /\ UNCHANGED <<varsId, varsVal, varsDiff, varsStore, varsJob, varsFn, varsScroll, varsRate, varsPage>>

\* one page.goto of the inner loop and what follows it up to the next await
Goto ==
    /\ fpc = "goto"
    /\ \E ok \in BOOLEAN :
        /\ navigations' = Append(navigations,
                                 [attempt |-> attempt,
                                  wait_until |-> WaitStrategies(wait_until)[position],
                                  ok |-> ok])
        /\ IF ok
           THEN /\ fpc' = "returned"
                /\ fetched' = [kind |-> "page"]
                /\ UNCHANGED <<position, page_open, last_error>>
           ELSE IF ~IsLastStrategy(WaitStrategies(wait_until), position)
           THEN /\ position' = position + 1
                /\ UNCHANGED <<fpc, page_open, last_error, fetched>>
           ELSE /\ last_error' = GotoError(attempt, position, WaitStrategies(wait_until)[position])
                /\ IF IsFinalAttempt(attempt, max_retries)
                   THEN /\ fpc' = "raised"
                        /\ page_open' = FALSE
                        /\ fetched' = [kind |-> "raised",
                                       error |-> GotoError(attempt, position,
                                                           WaitStrategies(wait_until)[position])]
                        /\ UNCHANGED position
                   ELSE /\ fpc' = "sleep"
                        /\ UNCHANGED <<position, page_open, fetched>>
    /\ UNCHANGED <<wait_until, max_retries, attempt>>
    /\ UNCHANGED <<varsId, varsVal, varsDiff, varsStore, varsJob, varsFn, varsScroll, varsRate, varsPage>>

\* asyncio.sleep(delay) is over: the next attempt, or past the loop the page is
\* closed and last_error raised
Backoff ==
    /\ fpc = "sleep"
    /\ attempt' = attempt + 1
    /\ IF attempt + 1 < max_retries
       THEN /\ fpc' = "goto"
            /\ position' = 1
            /\ UNCHANGED <<page_open, fetched>>
       ELSE /\ fpc' = "raised"
            /\ page_open' = FALSE
            /\ fetched' = [kind |-> "raised", error |-> last_error]
            /\ UNCHANGED position
    /\ UNCHANGED <<wait_until, max_retries, navigations, last_error>>
    /\ UNCHANGED <<varsId, varsVal, varsDiff, varsStore, varsJob, varsFn, varsScroll, varsRate, varsPage>>

NextFetch == OpenPage \/ Goto \/ Backoff

\* every await of fetch ends: page.goto has a timeout, the sleep a delay
SpecFetch == InitFetch /\ [][NextFetch]_vars /\ WF_vars(NextFetch)

----------------------------------------------------------------------------
(* compliance.py: ComplianceChecker.check_robots_txt *)

\* msg of a violation
Disallowed(url) == <<"URL disallowed by robots.txt: ">> \o url

\* the dict of the except branch: the check failed, the URL counts as allowed
CheckFailed(error) ==
    [allowed |-> TRUE, disallowed |-> FALSE, crawl_delay |-> <<>>, error |-> error]

\* check_robots_txt on a checker with the violations given; robots tells
\* whether rp.read() raised, and what can_fetch and crawl_delay answer.  The
\* ValueError of line 60 is raised inside the try block whose except clause
\* catches every Exception.
check_robots_txt(enforce, violations, url, robots) ==
    IF robots.read_raises
    THEN [raised |-> FALSE, violations |-> violations, result |-> CheckFailed(<<"URLError">>)]
    ELSE IF robots.can_fetch
    THEN [raised |-> FALSE, violations |-> violations,
          result |-> [allowed |-> TRUE, disallowed |-> FALSE,
                      crawl_delay |-> robots.crawl_delay, robots_url |-> <<"/robots.txt">>]]
    ELSE IF enforce
    THEN [raised |-> FALSE, violations |-> Append(violations, Disallowed(url)),
          result |-> CheckFailed(Disallowed(url))]
    ELSE [raised |-> FALSE, violations |-> Append(violations, Disallowed(url)),
          result |-> [allowed |-> FALSE, disallowed |-> TRUE,
                      crawl_delay |-> robots.crawl_delay, robots_url |-> <<"/robots.txt">>]]

MaxViolations == 1

CheckedUrls == {<<"a", "/", "x">>, <<"a", "/", "y">>}

\* what robots.txt of the site can be: unreadable, or readable with an answer
\* for the URL and a crawl delay (none, or a number of seconds)
RobotsFiles ==
    [read_raises : BOOLEAN, can_fetch : BOOLEAN, crawl_delay : {<<>>, <<1>>, <<5>>}]

InitCompliance ==
    /\ arg \in [enforce : BOOLEAN,
                violations : ListsOf({Disallowed(u) : u \in CheckedUrls}, MaxViolations),
                url : CheckedUrls,
                robots : RobotsFiles]
    /\ ret = <<>>
    /\ applied = "none"
    /\ IdIdle
    /\ ValIdle
    /\ DiffIdle
    /\ StoreIdle
    /\ JobIdle
    /\ FetchIdle
    /\ ScrollIdle
    /\ RateIdle
    /\ PageIdle

\* ComplianceChecker(enforce).check_robots_txt(url)
CheckRobotsTxt ==
    /\ applied = "none"
    /\ ret' = check_robots_txt(arg.enforce, arg.violations, arg.url, arg.robots)
    /\ applied' = "check_robots_txt"
    /\ UNCHANGED arg
    /\ UNCHANGED <<varsId, varsVal, varsDiff, varsStore, varsJob, varsFetch, varsScroll, varsRate, varsPage>>

NextCompliance == CheckRobotsTxt

SpecCompliance == InitCompliance /\ [][NextCompliance]_vars

----------------------------------------------------------------------------
(* extractor.py: ImageExtractor._scroll_page *)

MaxPageHeight == 4

MaxGrowth == 2

\* window.innerHeight: the viewport of the context, config.viewport when given
ViewportHeights == {1, 2, 4}

\* scroll_step = viewport_height // 2
ScrollStepOf(viewport) == viewport \div 2

\* window.scrollTo(0, y): the offset is kept within the document
ScrollTo(y, height, viewport) ==
    IF y < 0 \/ height <= viewport THEN 0
    ELSE IF y > height - viewport THEN height - viewport ELSE y

InitScroll ==
    /\ page_height \in 0..MaxPageHeight
    /\ grow_left \in 0..MaxGrowth
    /\ scroll_y = 0
    /\ viewport_height \in ViewportHeights
    /\ total_height = 0
    /\ current_position = 0
    /\ spc = "start"
    /\ IdIdle
    /\ ValIdle
    /\ DiffIdle
    /\ StoreIdle
    /\ JobIdle
    /\ FetchIdle
    /\ FnIdle
    /\ RateIdle
    /\ PageIdle

\* the two evaluate calls before the loop; any of them can raise, which ends
\* the pass in the except clause
ReadHeights(returns) ==
    /\ spc = "start"
    /\ \/ /\ returns
          /\ total_height' = page_height
          /\ current_position' = 0
          /\ spc' = "loop"
       \/ /\ ~returns
          /\ spc' = "collect"
          /\ UNCHANGED <<total_height, current_position>>
    /\ UNCHANGED <<page_height, grow_left, scroll_y, viewport_height>>
    /\ UNCHANGED <<varsId, varsVal, varsDiff, varsStore, varsJob, varsFn, varsFetch, varsRate, varsPage>>

\* one pass of the while loop: scrollTo, the wait during which the page may
\* load more content, the new height; an evaluate that raises ends the pass in
\* the except clause
ScrollDown(returns) ==
    /\ spc = "loop"
    /\ current_position < total_height
    /\ \/ \E grown \in {0, IF grow_left > 0 THEN 1 ELSE 0} :
            /\ returns
            /\ scroll_y' = ScrollTo(current_position, page_height, viewport_height)
            /\ page_height' = page_height + grown
            /\ grow_left' = grow_left - grown
            /\ total_height' = page_height + grown
            /\ current_position' = current_position + ScrollStepOf(viewport_height)
            /\ UNCHANGED spc
       \/ /\ ~returns
          /\ scroll_y' \in {scroll_y, ScrollTo(current_position, page_height, viewport_height)}
          /\ spc' = "collect"
          /\ UNCHANGED <<page_height, grow_left, total_height, current_position>>
    /\ UNCHANGED viewport_height
    /\ UNCHANGED <<varsId, varsVal, varsDiff, varsStore, varsJob, varsFn, varsFetch, varsRate, varsPage>>

\* after the loop: window.scrollTo(0, 0), which can raise as well
ScrollBack(returns) ==
    /\ spc = "loop"
    /\ ~(current_position < total_height)
    /\ \/ returns /\ scroll_y' = 0
       \/ ~returns /\ UNCHANGED scroll_y
    /\ spc' = "collect"
    /\ UNCHANGED <<page_height, grow_left, viewport_height, total_height, current_position>>
    /\ UNCHANGED <<varsId, varsVal, varsDiff, varsStore, varsJob, varsFn, varsFetch, varsRate, varsPage>>

NextScroll ==
    \E returns \in BOOLEAN :
        ReadHeights(returns) \/ ScrollDown(returns) \/ ScrollBack(returns)

\* the statements of the pass are executed one after the other
ScrollRuns == ReadHeights(TRUE) \/ ScrollDown(TRUE) \/ ScrollBack(TRUE)

\* every evaluate and every wait_for_timeout ends, by returning or by raising;
\* nothing makes one raise
SpecScroll == InitScroll /\ [][NextScroll]_vars /\ WF_vars(ScrollRuns)

----------------------------------------------------------------------------
(* rate_limiter.py: RateLimiter, and its use by scraper_api/main.py scrape *)

MaxRequests == 3

MaxRateClock == 6

\* the unit of time(): ticks per second
RateTicksPerSecond == 4

\* RateLimiter(requests_per_second=2.0)
RequestsPerSecond == 2

RequestIds == 1..MaxRequests

Domains == {"a.example", "b.example"}

\* min_interval = 1.0 / requests_per_second if requests_per_second > 0 else 0
MinInterval(rps) == IF rps > 0 THEN RateTicksPerSecond \div rps ELSE 0

\* the limiter a request's acquire call goes to: scrape constructs one in
\* each request (limiter r); a caller that keeps one instance has limiter 0
LimiterOf(r) == IF shared THEN 0 ELSE r

\* time() is seconds since the epoch: far more than min_interval after 0, the
\* default of last_request
InitRate ==
    /\ shared \in BOOLEAN
    /\ time_now = MinInterval(RequestsPerSecond)
    /\ request_domain \in [RequestIds -> Domains]
    /\ rpc = [r \in RequestIds |-> "new"]
    /\ wake_at = [r \in RequestIds |-> 0]
    /\ granted_at = [r \in RequestIds |-> 0]
    /\ last_request = [l \in 0..MaxRequests |-> [d \in Domains |-> 0]]
    /\ lock = [l \in 0..MaxRequests |-> 0]
    /\ IdIdle
    /\ ValIdle
    /\ DiffIdle
    /\ StoreIdle
    /\ JobIdle
    /\ FetchIdle
    /\ ScrollIdle
    /\ FnIdle
    /\ PageIdle

\* time passes
RateTick ==
    /\ time_now < MaxRateClock
    /\ time_now' = time_now + 1
    /\ UNCHANGED <<shared, request_domain, rpc, wake_at, granted_at, last_request, lock>>
    /\ UNCHANGED <<varsId, varsVal, varsDiff, varsStore, varsJob, varsFn, varsFetch, varsScroll, varsPage>>

\* acquire up to "async with self.lock" when the lock is taken: the call waits
Block(r) ==
    /\ rpc[r] = "new"
    /\ MinInterval(RequestsPerSecond) # 0
    /\ lock[LimiterOf(r)] # 0
    /\ rpc' = [rpc EXCEPT ![r] = "blocked"]
    /\ UNCHANGED <<shared, time_now, request_domain, wake_at, granted_at, last_request, lock>>
    /\ UNCHANGED <<varsId, varsVal, varsDiff, varsStore, varsJob, varsFn, varsFetch, varsScroll, varsPage>>

\* acquire with the lock free: elapsed is computed, and the call either goes
\* to sleep with the lock held or stamps last_request and returns
Enter(r) ==
    /\ rpc[r] \in {"new", "blocked"}
    /\ MinInterval(RequestsPerSecond) # 0
    /\ lock[LimiterOf(r)] = 0
    /\ \E elapsed \in {time_now - last_request[LimiterOf(r)][request_domain[r]]} :
           IF elapsed < MinInterval(RequestsPerSecond)
           THEN /\ rpc' = [rpc EXCEPT ![r] = "sleeping"]
                /\ wake_at' = [wake_at EXCEPT ![r] =
                                  time_now + (MinInterval(RequestsPerSecond) - elapsed)]
                /\ lock' = [lock EXCEPT ![LimiterOf(r)] = r]
                /\ UNCHANGED <<granted_at, last_request>>
           ELSE /\ rpc' = [rpc EXCEPT ![r] = "granted"]
                /\ granted_at' = [granted_at EXCEPT ![r] = time_now]
                /\ last_request' =
                       [last_request EXCEPT ![LimiterOf(r)][request_domain[r]] = time_now]
                /\ UNCHANGED <<wake_at, lock>>
    /\ UNCHANGED <<shared, time_now, request_domain>>
    /\ UNCHANGED <<varsId, varsVal, varsDiff, varsStore, varsJob, varsFn, varsFetch, varsScroll, varsPage>>

\* asyncio.sleep(wait_time) is over: last_request is stamped, the lock released
Wake(r) ==
    /\ rpc[r] = "sleeping"
    /\ time_now >= wake_at[r]
    /\ rpc' = [rpc EXCEPT ![r] = "granted"]
    /\ granted_at' = [granted_at EXCEPT ![r] = time_now]
    /\ last_request' = [last_request EXCEPT ![LimiterOf(r)][request_domain[r]] = time_now]
    /\ lock' = [lock EXCEPT ![LimiterOf(r)] = 0]
    /\ UNCHANGED <<shared, time_now, request_domain, wake_at>>
    /\ UNCHANGED <<varsId, varsVal, varsDiff, varsStore, varsJob, varsFn, varsFetch, varsScroll, varsPage>>

NextRate ==
    \/ RateTick
    \/ \E r \in RequestIds : Block(r)
    \/ \E r \in RequestIds : Enter(r)
    \/ \E r \in RequestIds : Wake(r)

SpecRate == InitRate /\ [][NextRate]_vars

----------------------------------------------------------------------------
(* extractor.py: the strategies on the page they share *)

MaxOrder == 2

\* elements of a page: what a strategy reads them as, the region of the
\* document they are in, and whether they are there only once scrolled to
LdProduct == [kind |-> "product", region |-> "script", lazy |-> FALSE]

CardProduct == [kind |-> "product", region |-> "main", lazy |-> FALSE]

HeaderLogo == [kind |-> "image", region |-> "header", lazy |-> FALSE]

Photo == [kind |-> "image", region |-> "main", lazy |-> FALSE]

FooterMail == [kind |-> "mail", region |-> "footer", lazy |-> FALSE]

Paragraph == [kind |-> "paragraph", region |-> "main", lazy |-> FALSE]

LazyParagraph == [kind |-> "paragraph", region |-> "main", lazy |-> TRUE]

PageElements ==
    {LdProduct, CardProduct, HeaderLogo, Photo, FooterMail, Paragraph, LazyParagraph}

\* 'nav, header, footer, script, style, aside, .ad, .advertisement'
RemovedRegions == {"nav", "header", "footer", "script", "style", "aside", "ad"}

\* what a strategy's extract does to the page before it reads it: images
\* scrolls it down and back, which brings the lazy elements in; text removes
\* the elements of the regions that are no content from the document
PageEffect(module, page) ==
    CASE module = "images" -> [dom |-> page.dom \cup page.pending, pending |-> {}]
      [] module = "text" ->
            [dom |-> {e \in page.dom : e.region \notin RemovedRegions},
             pending |-> page.pending]
      [] OTHER -> page

\* the elements a strategy's in-page script collects from the document:
\* products take the JSON-LD scripts and fall back to the cards when there
\* are none
Reads(module, document) ==
    CASE module = "products" ->
            IF {e \in document : e.kind = "product" /\ e.region = "script"} # {}
            THEN {e \in document : e.kind = "product" /\ e.region = "script"}
            ELSE {e \in document : e.kind = "product"}
      [] module = "images" -> {e \in document : e.kind = "image"}
      [] module = "contacts" -> {e \in document : e.kind = "mail"}
      [] module = "text" -> {e \in document : e.kind = "paragraph"}
      [] module = "assets" -> {e \in document : e.kind = "asset"}

InitPage ==
    /\ page_at_fetch \in SUBSET PageElements
    /\ dom = {e \in page_at_fetch : ~e.lazy}
    /\ pending = {e \in page_at_fetch : e.lazy}
    /\ run_order \in ListsOf(KnownModules, MaxOrder)
    /\ cursor = 1
    /\ found = EmptyDict
    /\ IdIdle
    /\ ValIdle
    /\ DiffIdle
    /\ StoreIdle
    /\ JobIdle
    /\ FetchIdle
    /\ ScrollIdle
    /\ RateIdle
    /\ FnIdle

\* one pass of "for module in modules": the strategy's extract on the page
RunStrategy ==
    /\ cursor <= Len(run_order)
    /\ \E after \in {PageEffect(run_order[cursor], [dom |-> dom, pending |-> pending])} :
           /\ dom' = after.dom
           /\ pending' = after.pending
           /\ found' = With(found, run_order[cursor], Reads(run_order[cursor], after.dom))
    /\ cursor' = cursor + 1
    /\ UNCHANGED <<page_at_fetch, run_order>>
    /\ UNCHANGED <<varsId, varsVal, varsDiff, varsStore, varsJob, varsFn, varsFetch, varsScroll, varsRate>>

NextPage == RunStrategy

SpecPage == InitPage /\ [][NextPage]_vars

----------------------------------------------------------------------------
(* C1 *)

\* detect_changes has run against a previous snapshot
Diffed == changes # Unset /\ previous # NoSnapshot

DiffFields(t) == KeyMapInUse(key_map)[t]

CurIdentity(t, i) == generate_id(current[t][i], DiffFields(t))

CurIdentities(t) == {CurIdentity(t, i) : i \in DOMAIN current[t]}

PrevRecords(t) == GetList(previous.data, t)

PrevIdentity(t, j) == generate_id(PrevRecords(t)[j], DiffFields(t))

\* the previous identities: those persisted in the snapshot, or when it has
\* none for the category those of its records under the fields in use
PrevIdentities(t) ==
    LET persisted == Range(GetList(previous.record_ids, t))
    IN  IF persisted # {} THEN persisted
        ELSE {PrevIdentity(t, j) : j \in DOMAIN PrevRecords(t)}

InBoth(t) == CurIdentities(t) \cap PrevIdentities(t)

\* some current and some previous record of identity id differ in fingerprint
FingerprintsDiffer(t, id) ==
    \E i \in DOMAIN current[t], j \in DOMAIN PrevRecords(t) :
        /\ CurIdentity(t, i) = id
        /\ PrevIdentity(t, j) = id
        /\ generate_fingerprint(current[t][i]) # generate_fingerprint(PrevRecords(t)[j])

\* C1: after detect_changes against a previous snapshot, for every diffed
\* category 'new' holds exactly the current records whose identity is not a
\* previous identity, 'removed' exactly the previous identities that are not
\* current ones, and 'updated' exactly one entry per identity present in both
\* whose previous and current fingerprints differ.
C1_NewUpdatedRemovedExact ==
    Diffed =>
        \A t \in DOMAIN changes.new :
            /\ changes.new[t] =
                   {current[t][i] : i \in {x \in DOMAIN current[t] :
                                                CurIdentity(t, x) \notin PrevIdentities(t)}}
            /\ changes.removed[t] = PrevIdentities(t) \ CurIdentities(t)
            /\ \A e \in changes.updated[t] : e.id \in InBoth(t)
            /\ \A id \in InBoth(t) :
                   Cardinality({e \in changes.updated[t] : e.id = id})
                       = IF FingerprintsDiffer(t, id) THEN 1 ELSE 0

----------------------------------------------------------------------------
(* C2 *)

ListCategories == <<"products", "images", "assets">>

KindOf(cat) ==
    CASE cat = "products" -> "product" [] cat = "images" -> "image" [] cat = "assets" -> "asset"

\* the indices of the records of a list that fail their schema
FailingAt(kind, items) == {i \in DOMAIN items : SchemaErrors(kind, items[i]) # <<>>}

\* M: the records of res that fail their schema
FailCount(res) ==
    Cardinality(IF Filled(res, "products") THEN FailingAt("product", res["products"]) ELSE {})
    + Cardinality(IF Filled(res, "images") THEN FailingAt("image", res["images"]) ELSE {})
    + Cardinality(IF Filled(res, "assets") THEN FailingAt("asset", res["assets"]) ELSE {})
    + (IF Filled(res, "contacts") /\ ContactErrors(res["contacts"]) # <<>> THEN 1 ELSE 0)

\* C2: on the first validate_result of a fresh Validator over N > 0 records of
\* which M fail, ValueError is raised if and only if M / N > error_threshold.
C2_ThresholdSignalsIffRatioExceeds ==
    (runs = 1 /\ total_records > 0) =>
        (raised <=> FailCount(result) * ErrorThresholdDen > total_records * ErrorThresholdNum)

----------------------------------------------------------------------------
(* C3 *)

\* the Error Log entries a list category must leave: one per failing record,
\* by ascending index, with the category's type, the 0-based index and the record
ExpectedEntries(kind, items) ==
    LET bad == FailingAt(kind, items)
    IN  [n \in 1..Cardinality(bad) |->
            LET i == CHOOSE x \in bad : Cardinality({y \in bad : y < x}) = n - 1
            IN  [type |-> kind, index |-> i - 1, data |-> items[i]]]

\* the validated list a category must give: the passing records, in input order
ExpectedValidated(kind, items) ==
    LET good == DOMAIN items \ FailingAt(kind, items)
    IN  [n \in 1..Cardinality(good) |->
            LET i == CHOOSE x \in good : Cardinality({y \in good : y < x}) = n - 1
            IN  SchemaDict(kind, items[i])]

\* the entries of a log that carry the type, without their messages
EntriesOf(log, kind) ==
    LET es == SelectSeq(log, LAMBDA e : e.type = kind)
    IN  [n \in DOMAIN es |-> [type |-> es[n].type, index |-> es[n].index, data |-> es[n].data]]

\* the positions of the log that carry the type
PositionsOf(log, kind) == {n \in DOMAIN log : log[n].type = kind}

\* C3: a run of validate_result keeps the log it found and appends to it; for
\* every list category each record is either in the validated list (input
\* order kept) or in exactly one appended entry with the category, its index,
\* a message and the record itself, never both and never neither; the entries
\* are appended in processing order (products, images, assets; ascending index).
C3_EachRecordValidatedOrLogged ==
    [][runs' = runs + 1 =>
        /\ Len(errors') >= Len(errors)
        /\ SubSeq(errors', 1, Len(errors)) = errors
        /\ LET new == SubSeq(errors', Len(errors) + 1, Len(errors'))
           IN  /\ \A n \in DOMAIN new : new[n].error # <<>>
               /\ \A c \in DOMAIN ListCategories :
                    LET cat == ListCategories[c]
                        kind == KindOf(cat)
                    IN  IF Filled(result', cat)
                        THEN /\ cat \in DOMAIN validated'
                             /\ validated'[cat] = ExpectedValidated(kind, result'[cat])
                             /\ EntriesOf(new, kind) = ExpectedEntries(kind, result'[cat])
                             /\ Len(validated'[cat]) + Len(EntriesOf(new, kind))
                                    = Len(result'[cat])
                        ELSE /\ cat \notin DOMAIN validated'
                             /\ PositionsOf(new, kind) = {}
               /\ \A m \in PositionsOf(new, "image"), n \in PositionsOf(new, "product") : n < m
               /\ \A m \in PositionsOf(new, "asset"),
                     n \in PositionsOf(new, "product") \cup PositionsOf(new, "image") : n < m
    ]_vars

\* a run over products, images and assets that each hold a passing and a
\* failing record: three list entries logged, three records validated
C3_Witness ==
    /\ runs = 1
    /\ Filled(result, "products") /\ Filled(result, "images") /\ Filled(result, "assets")
    /\ Len(validated["products"]) = 1 /\ Len(validated["images"]) = 1
    /\ Len(validated["assets"]) = 1
    /\ Len(errors) = 4
    /\ errors[1].type = "product" /\ errors[1].index = 1
    /\ errors[2].type = "image" /\ errors[2].index = 0
    /\ errors[4].type = "asset" /\ errors[4].index = 0

----------------------------------------------------------------------------
(* C4 *)

\* no record of the dict fails its schema
NoFailedRecord(d) ==
    /\ \A c \in DOMAIN ListCategories :
          Filled(d, ListCategories[c]) =>
              FailingAt(KindOf(ListCategories[c]), d[ListCategories[c]]) = {}
    /\ Filled(d, "contacts") => ContactErrors(d["contacts"]) = <<>>

\* C4: when validate_result signals threshold-exceeded, the dict the driver
\* goes on with holds no record that failed validation.
C4_BreachHandsOnValidatedOnly == raised => NoFailedRecord(handed)

----------------------------------------------------------------------------
(* C5 *)

\* the known modules of a request, in request order
RECURSIVE KnownIn(_)
KnownIn(ms) ==
    IF ms = <<>> THEN <<>>
    ELSE (IF Head(ms) \in KnownModules THEN <<Head(ms)>> ELSE <<>>) \o KnownIn(Tail(ms))

\* the extract calls of module that returned records to put into the result
Returned(module) ==
    {i \in DOMAIN calls :
        /\ calls[i].module = module
        /\ ~calls[i].raised
        /\ module \in {"contacts", "text"} => calls[i].records # <<>>}

\* the records of call i as the job result holds them
AsStored(i) ==
    CASE calls[i].module = "products" ->
            [k \in DOMAIN calls[i].records |-> normalize_product(calls[i].records[k])]
      [] calls[i].module \in {"images", "assets"} -> calls[i].records
      [] calls[i].module \in {"contacts", "text"} -> calls[i].records[1]

\* C5: whichever extract calls raise, the strategies of the modules the loop
\* has passed have all been invoked in request order, a category whose
\* strategy only raised (or returned nothing to store) is absent from the
\* result, every other category holds the records its strategy returned
\* last, and once the loop has begun the job does not fail: it ends after
\* every requested strategy was invoked.
C5_RaisingStrategiesAreIsolated ==
    /\ pc \in {"extract", "done"} =>
          /\ [i \in DOMAIN calls |-> calls[i].module]
               = KnownIn(SubSeq(modules, 1, next_module - 1))
          /\ \A module \in KnownModules :
                IF Returned(module) = {}
                THEN module \notin DOMAIN result
                ELSE /\ module \in DOMAIN result
                     /\ \E i \in Returned(module) :
                            /\ \A j \in Returned(module) : j <= i
                            /\ result[module] = AsStored(i)
    /\ pc = "done" => next_module = Len(modules) + 1
    /\ pc = "failed" => calls = <<>> /\ next_module = 1

\* a job that ended after its first strategy raised and its second returned records
C5_Witness ==
    /\ pc = "done"
    /\ Len(calls) = 2
    /\ calls[1].raised
    /\ ~calls[2].raised
    /\ calls[2].records # <<>>
    /\ calls[1].module \notin DOMAIN result
    /\ calls[2].module \in DOMAIN result
    /\ calls[2].module \in DOMAIN handed

----------------------------------------------------------------------------
(* C6 *)

\* no save_snapshot call for job_id has begun
NeverSaved(job_id) ==
    /\ \A i \in DOMAIN save_log : save_log[i].call.job_id # job_id
    /\ \A w \in Writers : writing[w] # Idle => writing[w].job_id # job_id

\* C6: a load_latest_snapshot(J) made while no snapshot has been saved for J
\* returns None and does not raise.
C6_LoadWithoutSnapshotGivesNone ==
    [][\A job_id \in JobIds :
          (NeverSaved(job_id) /\ LoadLatest(job_id))
              => (~loaded'.raised /\ loaded'.value = NoSnapshot)]_vars

----------------------------------------------------------------------------
(* C7 *)

\* C7: a snapshot file that has been written is never changed afterwards:
\* no step removes it, empties it, rewrites it or restamps it.
C7_SnapshotFilesNeverMutated ==
    [][\A n \in DOMAIN files :
          files[n].text # BrokenText => (n \in DOMAIN files' /\ files'[n] = files[n])]_vars

----------------------------------------------------------------------------
(* C8 *)

\* the writers that have begun a save_snapshot for job_id
WritersOf(job_id) ==
    {save_log[i].writer : i \in {x \in DOMAIN save_log : save_log[x].call.job_id = job_id}}
    \cup {w \in Writers : writing[w] # Idle /\ writing[w].job_id = job_id}

SaveInProgress(job_id) ==
    \E w \in Writers : writing[w] # Idle /\ writing[w].job_id = job_id

\* the last save_snapshot call for job_id that returned
LastSave(job_id) ==
    save_log[CHOOSE i \in DOMAIN save_log :
                /\ save_log[i].call.job_id = job_id
                /\ \A j \in DOMAIN save_log : save_log[j].call.job_id = job_id => j <= i].call

\* C8: once a single writer has made one or more save_snapshot calls for job
\* J and none is in progress, load_latest_snapshot(J) returns the snapshot of
\* the last of them: its data and the record_ids of its key fields.
C8_LoadReturnsLastSave ==
    \A job_id \in JobIds :
        (/\ ~NeverSaved(job_id)
         /\ ~SaveInProgress(job_id)
         /\ Cardinality(WritersOf(job_id)) = 1)
        => load_latest_snapshot(files, job_id)
             = {[raised |-> FALSE,
                 value |-> MakeSnapshot(job_id, LastSave(job_id).timestamp,
                                        LastSave(job_id).data, LastSave(job_id).key_fields)]}

----------------------------------------------------------------------------
(* C9 *)

\* the key fields of K present in r, with their values
SameKeyFields(a, b, fields) ==
    \A i \in DOMAIN fields :
        /\ HasKey(a, fields[i]) <=> HasKey(b, fields[i])
        /\ HasKey(a, fields[i]) => Get(a, fields[i]) = Get(b, fields[i])

\* C9: two records get the same identity under K if and only if the same key
\* fields of K are present in both with equal values; so the identity does not
\* change when the fields are permuted or when fields outside K are added,
\* removed or changed.
C9_IdentityIffSameKeyFields ==
    fn = "generate_id" =>
        (record_id[1] = record_id[2] <=> SameKeyFields(records[1], records[2], key_fields))

\* two different dicts that are permutations of each other, with a non-key
\* field besides, got one identity
C9_Witness ==
    /\ fn = "generate_id"
    /\ key_fields = <<"url", "title">>
    /\ records[1] = << <<"title", <<"A">> >>, <<"url", <<"B">> >>, <<"description", <<"A">> >> >>
    /\ records[2] = << <<"description", <<"B">> >>, <<"url", <<"B">> >>, <<"title", <<"A">> >> >>
    /\ record_id[1] = record_id[2]

----------------------------------------------------------------------------
(* C10 *)

\* the elements of s at the indices idx, in ascending index order
PickAt(s, idx) ==
    [k \in 1..Cardinality(idx) |->
        s[CHOOSE i \in idx : Cardinality({j \in idx : j < i}) = k - 1]]

\* the indices of the records that are the first of their identity
FirstOfIdentity ==
    {i \in DOMAIN records : \A j \in 1..(i - 1) : record_id[j] # record_id[i]}

\* C10: deduplicate returns the first record of each distinct identity, in
\* input order; no two records of the output share an identity, and
\* deduplicating the output again changes nothing.
C10_DeduplicateKeepsFirst ==
    fn = "deduplicate" =>
        /\ unique_records = PickAt(records, FirstOfIdentity)
        /\ \A i, j \in DOMAIN unique_records :
              generate_id(unique_records[i], key_fields) = generate_id(unique_records[j], key_fields)
                  => i = j
        /\ deduplicate(unique_records, key_fields) = unique_records

\* equal title and url, different descriptions: only the first is kept
C10_Witness ==
    /\ fn = "deduplicate"
    /\ key_fields = <<"title", "url">>
    /\ records = << << <<"title", <<"A">> >>, <<"url", <<"B">> >>, <<"description", <<"A">> >> >>,
                    << <<"title", <<"A">> >>, <<"url", <<"B">> >>, <<"description", <<"B">> >> >> >>
    /\ unique_records = << << <<"title", <<"A">> >>, <<"url", <<"B">> >>, <<"description", <<"A">> >> >> >>

----------------------------------------------------------------------------
(* C11 *)

\* the fields on which two records differ: present in one only, or present in
\* both with different values
DifferingFields(a, b) ==
    {k \in Keys(a) \cup Keys(b) :
        \/ HasKey(a, k) # HasKey(b, k)
        \/ HasKey(a, k) /\ HasKey(b, k) /\ Get(a, k) # Get(b, k)}

\* C11: two records have equal fingerprints if and only if they have the same
\* fields with the same values, whatever the order of the fields; in
\* particular two records that are equal except for one field value have
\* different fingerprints.
C11_FingerprintIffSameRecord ==
    applied = "generate_fingerprint" =>
        /\ ret[1] = ret[2] <=> DictEq(arg[1], arg[2])
        /\ (Keys(arg[1]) = Keys(arg[2]) /\ Cardinality(DifferingFields(arg[1], arg[2])) = 1)
              => ret[1] # ret[2]

\* same fields in another order, one value changed: the fingerprints differ
C11_Witness ==
    /\ applied = "generate_fingerprint"
    /\ arg[1] = << <<"title", <<"A">> >>, <<"url", <<"B">> >>, <<"description", <<"A">> >> >>
    /\ arg[2] = << <<"url", <<"B">> >>, <<"description", <<"B">> >>, <<"title", <<"A">> >> >>
    /\ ret[1] # ret[2]

----------------------------------------------------------------------------
(* C12 *)

\* what is left of the price string: its digits, dots and commas
PriceCleaned == Keep(arg, PriceChars)

\* the digits after the only comma of s
AfterComma(s) == Len(s) - RIndex(s, ",")

\* s with the separator sep read as the decimal point and the other one stripped
DecimalIs(s, sep) == [i \in DOMAIN Keep(s, Digits \cup {sep}) |->
                         IF Keep(s, Digits \cup {sep})[i] = sep THEN "."
                         ELSE Keep(s, Digits \cup {sep})[i]]

\* the number the price is read as when a lone comma followed by a number of
\* digits in lone is the decimal separator
PriceReadAs(lone) ==
    IF Count(PriceCleaned, ",") > 0 /\ Count(PriceCleaned, ".") > 0
    THEN IF RIndex(PriceCleaned, ",") > RIndex(PriceCleaned, ".")
         THEN DecimalIs(PriceCleaned, ",") ELSE DecimalIs(PriceCleaned, ".")
    ELSE IF Count(PriceCleaned, ",") = 1 /\ AfterComma(PriceCleaned) \in lone
    THEN DecimalIs(PriceCleaned, ",")
    ELSE DecimalIs(PriceCleaned, ".")

\* the result is the number read, absent when there is none to parse
PriceIs(number) ==
    IF IsFloat(number) THEN ret.ok /\ ret.value = FloatRepr(number) ELSE ~ret.ok

PriceExamplesHold ==
    /\ arg = <<"$", "1", "9", ".", "9", "9">> => ret.ok /\ ret.value = <<"1", "9", ".", "9", "9">>
    /\ arg = <<"euro-sign", "1", "5", ",", "5", "0">> => ret.ok /\ ret.value = <<"1", "5", ".", "5">>
    /\ arg = <<"pound-sign", "1", ".", "2", "3", "4", ",", "5", "6">> => ret.ok /\ ret.value = <<"1", "2", "3", "4", ".", "5", "6">>
    /\ arg = <<"T", "B", "D">> => ~ret.ok

\* C12 as stated: when both '.' and ',' occur the later one is the decimal
\* separator and the other is stripped; a lone ',' is the decimal separator
\* only if exactly two digits follow it, otherwise it is stripped as a
\* thousands separator; input with no parseable number gives absent.
C12_CommaDecimalBeforeExactlyTwo ==
    applied = "normalize_price" => PriceIs(PriceReadAs({2})) /\ PriceExamplesHold

\* C12, amended: a lone ',' is the decimal separator if at most two digits
\* follow it (two, one or none), and stripped as a thousands separator
\* otherwise; the rest as stated.
C12_CommaDecimalBeforeAtMostTwo ==
    applied = "normalize_price" => PriceIs(PriceReadAs({0, 1, 2})) /\ PriceExamplesHold

\* one digit after the comma: read as 1.5, not as 15
C12_Witness ==
    /\ applied = "normalize_price"
    /\ arg = <<"1", ",", "5">>
    /\ ret.ok
    /\ ret.value = <<"1", ".", "5">>

----------------------------------------------------------------------------
(* C13 *)

\* the digits of the phone number
DigitsOf(phone) == Keep(phone, Digits)

\* C13: normalize_phone returns absent exactly when fewer than 10 digits
\* remain after stripping; otherwise the result is '+' followed by digits
\* only: the digits of the input, prefixed with 1 when there are exactly 10 of
\* them and the input had no leading '+'.
C13_PhoneIsPlusAndDigits ==
    applied = "normalize_phone" =>
        /\ ~ret.ok <=> Len(DigitsOf(arg)) < 10
        /\ ret.ok =>
              ret.value = <<"+">>
                          \o (IF Len(DigitsOf(arg)) = 10 /\ ~StartsWith(PhoneDigits(arg), <<"+">>)
                              THEN <<"1">> ELSE <<>>)
                          \o DigitsOf(arg)

----------------------------------------------------------------------------
(* C14 *)

\* the record has a price that normalize_price cannot parse
PriceUnparsable(product) ==
    /\ HasKey(product, "price")
    /\ Get(product, "price") \notin {None, <<>>}
    /\ ~normalize_price(PyStr(Get(product, "price"))).ok

\* the field is absent from the record: left out, None or empty
FieldAbsent(product, k) == ~HasKey(product, k) \/ Get(product, k) \in {None, <<>>}

\* C14: normalize_product returns a record for every product record; when the
\* price cannot be parsed the price field of the result is absent, no numeric
\* value and no currency code is emitted, and every other field of the record
\* is kept.
C14_UnparsablePriceDegradesToAbsent ==
    (applied = "normalize_product" /\ PriceUnparsable(arg)) =>
        /\ FieldAbsent(ret, "price")
        /\ ~HasKey(ret, "price_value")
        /\ ~HasKey(ret, "price_currency")
        /\ Keys(arg) \ {"price"} \subseteq Keys(ret)

----------------------------------------------------------------------------
(* C15 *)

\* the records of the category that pass its schema, in input order
Passing(cat) ==
    PickAt(result[cat], {i \in DOMAIN result[cat] : SchemaErrors(KindOf(cat), result[cat][i]) = <<>>})

\* every field of the record, with its value where the schema does not declare it
KeepsFields(kind, in, out) ==
    /\ Keys(in) \subseteq Keys(out)
    /\ \A i \in DOMAIN ExtraFields(kind, in) :
          Get(out, ExtraFields(kind, in)[i][1]) = ExtraFields(kind, in)[i][2]

\* C15: for every category, a record that passes validation comes out with
\* every field it had on input, the fields its schema does not declare
\* included.
C15_ExtraFieldsPreserved ==
    runs > 0 =>
        \A cat \in {"products", "images", "assets"} \cap DOMAIN validated :
            /\ Len(validated[cat]) = Len(Passing(cat))
            /\ \A k \in DOMAIN validated[cat] :
                  KeepsFields(KindOf(cat), Passing(cat)[k], validated[cat][k])

----------------------------------------------------------------------------
(* C16 *)

\* the job ran to its end and more than the threshold's share of its records
\* failed validation, or validate_result raised
Breach ==
    /\ pc = "done"
    /\ \/ raised
       \/ total_records > 0 /\ Len(errors) * ErrorThresholdDen > total_records * ErrorThresholdNum

----------------------------------------------------------------------------
(* C17 *)

\* the phase the returned records come from
SourcePhase == IF Len(arg.json_ld) >= 1 THEN arg.json_ld ELSE arg.dom

Titled(record) == HasKey(record, "title") /\ Get(record, "title") # None /\ Len(Get(record, "title")) > 0

\* the positions of the first 50 records of the phase that have a title
FirstTitled ==
    {i \in DOMAIN SourcePhase :
        /\ Titled(SourcePhase[i])
        /\ Cardinality({j \in 1..(i - 1) : Titled(SourcePhase[j])}) < 50}

\* C17: extract returns, in order, the first 50 records with a non-empty
\* title of the structured-data phase if that phase yielded at least one
\* record, and of the DOM fallback otherwise; the DOM fallback runs if and only
\* if the structured-data phase yielded no record.
C17_FirstFiftyTitledOfOnePhase ==
    applied = "extract" =>
        /\ ret.products = PickAt(SourcePhase, FirstTitled)
        /\ ret.dom_ran <=> Len(arg.json_ld) = 0

\* 52 structured records, every third without a title, and a DOM list that is
\* not used: 35 of them have a title and all 35 come back
C17_Witness ==
    /\ applied = "extract"
    /\ Len(arg.json_ld) = 52
    /\ Len(arg.dom) = 2
    /\ arg.json_ld[3]  = << <<"title", <<>> >>, <<"price", <<"$", "9">>>> >>
    /\ ~ret.dom_ran
    /\ Len(ret.products) = 35
    /\ ret.products[3] = arg.json_ld[4]

\* 52 DOM records, all titled, after an empty structured phase: the first 50 come back
C17_WitnessCap ==
    /\ applied = "extract"
    /\ arg.json_ld = <<>>
    /\ Len(arg.dom) = 52
    /\ ret.dom_ran
    /\ Len(ret.products) = 50

----------------------------------------------------------------------------
(* C18 *)

\* the categories present in both the current result and the key-field map in use
CoveredCategories == DOMAIN current \cap DOMAIN KeyMapInUse(key_map)

\* C18: with a previous snapshot, detect_changes diffs every category present
\* in both the current result and the key-field map in use, the default one or
\* the caller's, and has no new, updated or removed entry for a category the
\* map does not cover.
C18_DiffsCategoriesOfKeyMap ==
    (changes # Unset /\ previous # NoSnapshot) =>
        /\ DOMAIN changes.new = CoveredCategories
        /\ DOMAIN changes.updated = CoveredCategories
        /\ DOMAIN changes.removed = CoveredCategories

----------------------------------------------------------------------------
(* C19 *)

\* a numeric or a named entity pattern starts at position i of s
EntityPatternAt(s, i) ==
    EntityAt(s, <<"&", "#">>, Digits, i) \/ EntityAt(s, <<"&">>, WordChars, i)

\* C19: the output of clean_text contains no numeric or named entity pattern,
\* no run of two or more whitespace characters and no leading or trailing
\* whitespace; the entities of the table are replaced by their characters,
\* "Tom &amp; Jerry&nbsp;Show" giving "Tom & Jerry Show".
C19_CleanTextLeavesNoEntity ==
    applied = "clean_text" =>
        /\ \A i \in DOMAIN ret : ~EntityPatternAt(ret, i)
        /\ \A i \in DOMAIN ret : ret[i] \in Whitespace => i + 1 \in DOMAIN ret /\ ret[i + 1] \notin Whitespace
        /\ ret # <<>> => ret[1] \notin Whitespace
        /\ arg = <<"T", "o", "m", " ", "&", "a", "m", "p", ";", " ", "J", "e", "r", "r", "y", "&", "n", "b", "s", "p", ";", "S", "h", "o", "w">> => ret = <<"T", "o", "m", " ", "&", " ", "J", "e", "r", "r", "y", " ", "S", "h", "o", "w">>

----------------------------------------------------------------------------
(* C20 *)

\* the snapshot has a persisted identity list for the category
HasPersisted(t) == t \in DOMAIN previous.record_ids

\* the previous identities of the category: the persisted ones where the
\* snapshot has them, else those of its raw records under the key fields in use
PreviousIds(t) ==
    IF HasPersisted(t) THEN Range(previous.record_ids[t])
    ELSE {generate_id(r, KeyMapInUse(key_map)[t]) : r \in Range(GetList(previous.data, t))}

CurrentIds(t) == {generate_id(r, KeyMapInUse(key_map)[t]) : r \in Range(current[t])}

\* C20: the previous identities of a category are the snapshot's persisted
\* record_ids whenever the snapshot has a list for that category, and are
\* recomputed from the previous raw records with the current key fields only
\* when that list is absent; new and removed are taken against them.
C20_PersistedIdsPreferred ==
    (changes # Unset /\ previous # NoSnapshot) =>
        \A t \in DOMAIN changes.removed :
            /\ changes.removed[t] = PreviousIds(t) \ CurrentIds(t)
            /\ {generate_id(r, KeyMapInUse(key_map)[t]) : r \in changes.new[t]}
                   = CurrentIds(t) \ PreviousIds(t)

\* a snapshot saved under title and url, diffed under title alone: the
\* persisted identity of the previous record is reported removed although its
\* title is still there
C20_Witness ==
    /\ changes # Unset
    /\ previous # NoSnapshot
    /\ key_map = ("products" :> <<"title">>)
    /\ current = ("products" :> <<RecC>>)
    /\ previous.data = ("products" :> <<RecA>>)
    /\ previous.record_ids = ("products" :> <<generate_id(RecA, <<"title", "url">>)>>)
    /\ changes.removed = ("products" :> {generate_id(RecA, <<"title", "url">>)})
    /\ changes.new = ("products" :> {RecC})

\* a snapshot saved without key fields has no persisted list: the identities
\* are recomputed and nothing is removed
C20_WitnessRecomputed ==
    /\ changes # Unset
    /\ previous # NoSnapshot
    /\ key_map = ("products" :> <<"title">>)
    /\ current = ("products" :> <<RecC>>)
    /\ previous.data = ("products" :> <<RecA>>)
    /\ previous.record_ids = EmptyDict
    /\ changes.removed = ("products" :> {})

----------------------------------------------------------------------------
(* C21 *)

\* the attempts in which a navigation was made
AttemptsMade == {navigations[i].attempt : i \in DOMAIN navigations}

FetchEnded == fpc \in {"returned", "raised"}

\* what fetch may do: at most max_retries attempts, nothing after a
\* navigation that succeeded, a page returned only on such a navigation, and
\* otherwise, once max_retries attempts have failed, the page closed and the
\* error of the last navigation raised
FetchSafe ==
    /\ Cardinality(AttemptsMade) <= max_retries
    /\ \A i \in DOMAIN navigations : navigations[i].ok => i = Len(navigations) /\ fpc = "returned"
    /\ fpc = "returned" =>
          /\ fetched = [kind |-> "page"]
          /\ page_open
          /\ navigations # <<>>
          /\ navigations[Len(navigations)].ok
    /\ fpc = "raised" =>
          /\ fetched.kind = "raised"
          /\ ~page_open
          /\ Cardinality(AttemptsMade) = max_retries
          /\ navigations # <<>> =>
                fetched.error = GotoError(navigations[Len(navigations)].attempt, position,
                                          navigations[Len(navigations)].wait_until)

\* C21: fetch makes at most max_retries attempts and always terminates; it
\* returns the page as soon as one navigation succeeds, and when every attempt
\* fails it closes the page and raises the error of the last attempt; it never
\* returns a page whose navigation failed and never retries after a success.
C21_FetchBoundedAndTerminates == []FetchSafe /\ <>FetchEnded

\* three attempts of three navigations each, all failed: the page is closed
\* and the error of the ninth navigation raised
C21_Witness ==
    /\ fpc = "raised"
    /\ max_retries = 3
    /\ wait_until = "networkidle"
    /\ Len(navigations) = 9
    /\ ~page_open
    /\ fetched = [kind |-> "raised", error |-> GotoError(2, 3, "load")]

----------------------------------------------------------------------------
(* C22 *)

\* the wait strategies navigated with in attempt a, in the order of the calls
StrategiesTried(a) ==
    LET made == SelectSeq(navigations, LAMBDA n : n.attempt = a)
    IN  [i \in DOMAIN made |-> made[i].wait_until]

\* the attempts that counted as failed: those before the current one, and
\* the current one once the call sleeps before a retry or has raised
FailedAttempts ==
    {a \in AttemptsMade : a < attempt \/ (a = attempt /\ fpc \in {"sleep", "raised"})}

\* C22: within one attempt the wait strategies are tried in the order
\* config.wait_until, 'domcontentloaded', 'load', and the attempt counts as
\* failed only after all three navigations have failed, for every value of
\* config.wait_until.
C22_AttemptFailsAfterThreeStrategies ==
    /\ \A a \in AttemptsMade :
          StrategiesTried(a) = SubSeq(<<wait_until, "domcontentloaded", "load">>,
                                      1, Len(StrategiesTried(a)))
    /\ \A a \in FailedAttempts : Len(StrategiesTried(a)) = 3

----------------------------------------------------------------------------
(* C23 *)

\* robots.txt was read and disallows the URL
RobotsDisallows == ~arg.robots.read_raises /\ ~arg.robots.can_fetch

\* C23: a ComplianceChecker built with enforce=True fails on a violation:
\* check_robots_txt on a URL that robots.txt disallows raises instead of
\* returning a result with allowed=True; with enforce=False it records the
\* violation and returns allowed=False.
C23_EnforceRaisesOnDisallowed ==
    (applied = "check_robots_txt" /\ RobotsDisallows) =>
        /\ ret.violations = Append(arg.violations, Disallowed(arg.url))
        /\ IF arg.enforce THEN ret.raised
           ELSE ~ret.raised /\ ~ret.result.allowed

----------------------------------------------------------------------------
(* C24 *)

\* the pass is over and image collection starts
ScrollEnded == spc = "collect"

\* C24: on a page whose scroll height is finite and stops growing, the scroll
\* pass ends after finitely many steps, and whenever it ends, normally or
\* after a scroll error, the page is scrolled back to the top before image
\* collection starts.
C24_ScrollEndsAtTop == [](ScrollEnded => scroll_y = 0) /\ <>ScrollEnded

----------------------------------------------------------------------------
(* C25 *)

\* the previous snapshot is the one save_snapshot writes from the current
\* result with the key fields the comparison uses
SnapshotOfCurrent ==
    /\ previous # NoSnapshot
    /\ previous = MakeSnapshot(DiffJob, 0, current, key_map)

NoChanges(ch) ==
    /\ \A t \in DOMAIN ch.new : ch.new[t] = {}
    /\ \A t \in DOMAIN ch.updated : ch.updated[t] = {}
    /\ \A t \in DOMAIN ch.removed : ch.removed[t] = {}

\* C25: a result compared with the snapshot saved from that same result under
\* the same key fields has no new, no updated and no removed record in any
\* diffed category, also when it holds several records of one identity.
C25_SelfDiffIsEmpty ==
    (changes # Unset /\ SnapshotOfCurrent) => NoChanges(changes)

----------------------------------------------------------------------------
(* C26 *)

\* load_latest_snapshot returned a snapshot
LoadedSnapshot == loaded # Unset /\ ~loaded.raised /\ loaded.value # NoSnapshot

\* C26: the snapshot load_latest_snapshot(J) returns carries the job id J,
\* also when the identifier of another job starts with J followed by '_'.
C26_LoadedSnapshotIsOfTheJob ==
    LoadedSnapshot => loaded.value.job_id = loaded.job_id

----------------------------------------------------------------------------
(* C29 *)

\* the save_snapshot calls begun so far
SaveCallsBegun ==
    {save_log[i].call : i \in DOMAIN save_log}
    \cup {writing[w] : w \in {x \in Writers : writing[x] # Idle}}

\* C29: however save_snapshot and load_latest_snapshot calls interleave, a
\* load does not raise and returns None or the complete snapshot of one
\* save_snapshot call, never a partially written one.
C29_LoadNeverSeesPartialWrite ==
    loaded # Unset =>
        /\ ~loaded.raised
        /\ \/ loaded.value = NoSnapshot
           \/ \E c \in SaveCallsBegun :
                  loaded.value = MakeSnapshot(c.job_id, c.timestamp, c.data, c.key_fields)

----------------------------------------------------------------------------
(* C28 *)

\* record.get(k) is a non-empty list
NonEmptyList(record, k) == Get(record, k) # None /\ Get(record, k) # <<>>

\* at least one of the three lists of a contacts record holds something
ContactsFound(record) ==
    NonEmptyList(record, "emails") \/ NonEmptyList(record, "phones")
        \/ NonEmptyList(record, "socials")

\* C28: the result a job ends with holds a 'contacts' record only when at
\* least one of its emails, phones and socials lists is non-empty: an
\* extraction that found nothing, or failed, leaves no contacts record.
C28_ContactsRecordOnlyWhenFound ==
    (pc = "done" /\ "contacts" \in DOMAIN handed) => ContactsFound(handed["contacts"])

----------------------------------------------------------------------------
(* C30 *)

Distance(a, b) == IF a < b THEN b - a ELSE a - b

\* two requests to one domain were granted less than min_interval apart
GrantedTooClose ==
    \E r, s \in RequestIds :
        /\ r # s
        /\ rpc[r] = "granted" /\ rpc[s] = "granted"
        /\ request_domain[r] = request_domain[s]
        /\ Distance(granted_at[r], granted_at[s]) < MinInterval(RequestsPerSecond)

\* a request waits for the lock while its holder sleeps for another domain
DelayedByOtherDomain ==
    \E r, s \in RequestIds :
        /\ rpc[r] = "blocked" /\ rpc[s] = "sleeping"
        /\ lock[LimiterOf(r)] = s
        /\ request_domain[r] # request_domain[s]

\* C30: the rate limit holds per domain across requests: two requests to one
\* domain are granted at least 1/requests_per_second apart (0.5 s for the
\* service), and a wait for one domain does not delay a request to another.
C30_RateLimitPerDomain == ~GrantedTooClose /\ ~DelayedByOtherDomain

----------------------------------------------------------------------------
(* C27 *)

\* what the strategy of module extracts when it is the first to run on the
\* page as fetched
ExtractedFirst(module) ==
    Reads(module, PageEffect(module, [dom |-> {e \in page_at_fetch : ~e.lazy},
                                      pending |-> {e \in page_at_fetch : e.lazy}]).dom)

\* C27: what is extracted for a category does not depend on the strategies
\* that ran on the shared page before: it is what the strategy extracts when
\* it runs first, so any two orders of the same modules give the same result
\* for every category.
C27_ExtractionIndependentOfOrder ==
    \A module \in DOMAIN found : found[module] = ExtractedFirst(module)

====
